---- MODULE Spec2Model ----
(***************************************************************************)
(* State-machine model of the resource scheduler components:               *)
(*   VirtualizedScheduler   src/components/VirtualizedScheduler.jsx        *)
(*   Scheduler              src/components/FilterBar.jsx (lines 102-473)   *)
(*   OptimizedScheduler     src/data/generate-bookings.js (lines 192-499)  *)
(*   VirtualizedScheduler with drag support, grid cells   src/unnamed/part_001 *)
(*   VirtualizedScheduler with drag support, row blocks   src/unnamed/part_002 *)
(* together with BookingModal, BookingBlock, GridBookingCell, ResourceRow  *)
(* and the owning page (src/app/page.js).                                  *)
(*                                                                         *)
(* Every event handler runs to completion as one step; React re-renders    *)
(* and re-runs effects between two events, so a handler reads the state    *)
(* left by the previous step.  setTimeout callbacks are steps of their own *)
(* that may interleave with pointer events.                                *)
(* Date keys 'YYYY-MM-DD' are day numbers; their string order is the       *)
(* numeric order.  Names are sequences of one-character strings.           *)
(***************************************************************************)
EXTENDS Integers, Sequences, FiniteSets, TLC

(* ------------------------------ bounds --------------------------------- *)
\* number of date columns of the window (daysToShow)
DaysToShow == 3
\* cap on the size of the page's booking list
MaxBookings == 2
\* cap on the number of pending modal-open timers
MaxTimers == 1
\* cap on the clock of a booking-block press, in units of TickMs
MaxTicks == 3

(* --------------------------- program constants ------------------------- *)
\* distance threshold of the click-vs-drag disambiguation (px)
DragDistancePx == 5
\* hold threshold of the click-vs-drag disambiguation (ms)
DragHoldMs == 200
\* granularity of the modelled clock (ms)
TickMs == 100
\* getDateIndex / indexOf "not found"
NotFound == -1
\* first day of the window (today)
StartDay == 1

(* ------------------------------ values --------------------------------- *)
NULL == [null |-> TRUE]
NoId == "null"
NoDate == -1000
Undefined == -2
\* date keys are day numbers, ordered as the YYYY-MM-DD strings are; a key that
\* is no date is a number out of their range, placed where its string sorts:
\* one like "01/20/2026" before every date key, one like "n/a" after them all
MalformedBefore == -500
MalformedAfter == 600
\* the string "Invalid Date" that dayjs formats for a key that is no date; it
\* sorts after every date key
InvalidDate == 500
VS == "VirtualizedScheduler"
SCH == "Scheduler"
OPT == "OptimizedScheduler"
DG == "DragGrid"
DR == "DragRows"
Variants == {VS, SCH, OPT, DG, DR}
FilterVariants == {VS, DG, DR}
DragVariants == {DG, DR}
\* the schedulers that render through MultiGrid
GridVariants == {VS, DG}

Min(a, b) == IF a <= b THEN a ELSE b
Max(a, b) == IF a >= b THEN a ELSE b

(* ------------------------------ dateUtils ------------------------------ *)
generateDateRange(days, startDate) == [i \in 1..days |-> startDate + (i - 1)]

\* zero-based index of dateStr in dates, -1 if absent
getDateIndex(dateStr, dates) ==
    IF \E i \in 1..Len(dates) : dates[i] = dateStr
    THEN (CHOOSE i \in 1..Len(dates) :
            dates[i] = dateStr /\ \A j \in 1..(i - 1) : dates[j] # dateStr) - 1
    ELSE NotFound

dates == generateDateRange(DaysToShow, StartDay)

(* ------------------------- strings and names --------------------------- *)
\* String.prototype.toLowerCase on one character
LowerChar(c) ==
    CASE c = "A" -> "a"
      [] c = "B" -> "b"
      [] OTHER -> c

toLowerCase(s) == [i \in 1..Len(s) |-> LowerChar(s[i])]

\* String.prototype.includes: t occurs in s as a contiguous substring
includes(s, t) ==
    \E i \in 0..(Len(s) - Len(t)) : SubSeq(s, i + 1, i + Len(t)) = t

DigitChar(d) ==
    CASE d = 0 -> "0" [] d = 1 -> "1" [] d = 2 -> "2" [] d = 3 -> "3"
      [] d = 4 -> "4" [] d = 5 -> "5" [] d = 6 -> "6" [] d = 7 -> "7"
      [] d = 8 -> "8" [] OTHER -> "9"

\* Number.prototype.toString of a non-negative integer: its decimal digits
RECURSIVE toString(_)
toString(n) ==
    IF n < 10 THEN <<DigitChar(n)>>
    ELSE toString(n \div 10) \o <<DigitChar(n % 10)>>

SeqRange(seq) == {seq[i] : i \in 1..Len(seq)}

(* ----------------------- filtering and flattening ---------------------- *)
\* a booking-ID filter that keeps the stored expanded flag of each group
filterByBookingIdAsStored(res, bks, bid) ==
    LET matchingResourceIds ==
            {b.resourceId : b \in {x \in SeqRange(bks) :
                                      includes(toString(x.booking_id), bid)}}
        mapped == [i \in 1..Len(res) |->
                     [res[i] EXCEPT !.children = SelectSeq(@, LAMBDA c :
                                                    c.id \in matchingResourceIds)]]
    IN  SelectSeq(mapped, LAMBDA p : Len(p.children) > 0)

\* the booking-ID filter of visibleRows
filterByBookingId(res, bks, bid) ==
    LET matchingBookings ==
            SelectSeq(bks, LAMBDA b : includes(toString(b.booking_id), bid))
        matchingResourceIds == {b.resourceId : b \in SeqRange(matchingBookings)}
        mapped == [i \in 1..Len(res) |->
                     [res[i] EXCEPT !.expanded = TRUE,
                                    !.children = SelectSeq(@, LAMBDA c :
                                                    c.id \in matchingResourceIds)]]
    IN  SelectSeq(mapped, LAMBDA p : Len(p.children) > 0)

\* the search-term filter of visibleRows (keeps or drops whole groups)
filterBySearchTerm(res, term) ==
    SelectSeq(res, LAMBDA parent :
        LET parentMatches == includes(toLowerCase(parent.name), toLowerCase(term))
            childMatches == \E i \in 1..Len(parent.children) :
                includes(toLowerCase(parent.children[i].name), toLowerCase(term))
        IN  parentMatches \/ childMatches)

parentRow(parent) ==
    [type |-> "parent", id |-> parent.id, name |-> parent.name,
     expanded |-> parent.expanded, children |-> parent.children]

childRow(child, parent) ==
    [type |-> "child", id |-> child.id, name |-> child.name, parentId |-> parent.id]

\* a flatMap callback that lists the children of collapsed groups too
groupRowsAlwaysOpen(parent, term) ==
    LET kept == SelectSeq(parent.children, LAMBDA child :
                   term = <<>> \/
                   includes(toLowerCase(child.name), toLowerCase(term)))
    IN  <<parentRow(parent)>> \o
        [i \in 1..Len(kept) |-> childRow(kept[i], parent)]

\* rows one group contributes in the schedulers with a filter bar
groupRowsFiltered(parent, term) ==
    IF ~parent.expanded THEN <<parentRow(parent)>>
    ELSE LET kept == SelectSeq(parent.children, LAMBDA child :
                        term = <<>> \/
                        includes(toLowerCase(child.name), toLowerCase(term)))
         IN  <<parentRow(parent)>> \o
             [i \in 1..Len(kept) |-> childRow(kept[i], parent)]

\* the flatMap of visibleRows in the schedulers with a filter bar
RECURSIVE flattenFiltered(_, _)
flattenFiltered(res, term) ==
    IF res = <<>> THEN <<>>
    ELSE groupRowsFiltered(Head(res), term) \o flattenFiltered(Tail(res), term)

\* rows one group contributes in Scheduler and OptimizedScheduler
groupRowsPlain(parent) ==
    IF ~parent.expanded THEN <<parentRow(parent)>>
    ELSE <<parentRow(parent)>> \o
         [i \in 1..Len(parent.children) |-> childRow(parent.children[i], parent)]

\* visibleRows of Scheduler and OptimizedScheduler (no filters)
RECURSIVE flattenPlain(_)
flattenPlain(res) ==
    IF res = <<>> THEN <<>>
    ELSE groupRowsPlain(Head(res)) \o flattenPlain(Tail(res))

\* a visibleRows that keeps the groups opened by the filters open for good
visibleRowsKeptOpen(res, bks, term, bid) ==
    flattenFiltered([i \in 1..Len(res) |-> [res[i] EXCEPT !.expanded = TRUE]], term)

\* visibleRows of the schedulers with a filter bar
visibleRowsFiltered(res, bks, term, bid) ==
    LET afterId == IF bid # <<>> THEN filterByBookingId(res, bks, bid) ELSE res
        afterTerm == IF term # <<>> THEN filterBySearchTerm(afterId, term) ELSE afterId
    IN  flattenFiltered(afterTerm, term)


(* --------------------------- booking layout ---------------------------- *)
\* the last occupied day: endDate minus one day
\* is the key a date (what new Date(key) and dayjs(key) can parse)
isDateKey(key) == MalformedBefore < key /\ key < InvalidDate

displayEndDate(booking) ==
    IF isDateKey(booking.endDate) THEN booking.endDate - 1 ELSE InvalidDate

\* GridBookingCell and the cellRenderer filter compute the last occupied day by
\* new Date(new Date(endDate).getTime() - 86400000).toISOString(), which throws
\* a RangeError for an endDate that is no date
throwsRangeError(booking) == ~isDateKey(booking.endDate)

\* "Show booking if: starts in range OR ends in range OR spans entire range"
bookingOverlapsRange(booking, ds) ==
    LET startIdx == getDateIndex(booking.startDate, ds)
        endIdx == getDateIndex(displayEndDate(booking), ds)
        bookingStartsBeforeRange == startIdx = NotFound /\ booking.startDate < ds[1]
        bookingEndsAfterRange ==
            endIdx = NotFound /\ displayEndDate(booking) > ds[Len(ds)]
        bookingSpansEntireRange == bookingStartsBeforeRange /\ bookingEndsAfterRange
    IN  startIdx # NotFound \/ endIdx # NotFound \/ bookingSpansEntireRange

visibleStartIndex(booking, ds) ==
    LET startIdx == getDateIndex(booking.startDate, ds)
    IN  Max(0, IF startIdx = NotFound THEN 0 ELSE startIdx)

\* a clipping that takes the checkout day for the last occupied one
visibleEndIndexAtCheckout(booking, ds) ==
    LET endIdx == getDateIndex(booking.endDate, ds)
    IN  Min(Len(ds) - 1, IF endIdx = NotFound THEN Len(ds) - 1 ELSE endIdx)

visibleEndIndex(booking, ds) ==
    LET endIdx == getDateIndex(displayEndDate(booking), ds)
    IN  Min(Len(ds) - 1, IF endIdx = NotFound THEN Len(ds) - 1 ELSE endIdx)

\* BookingBlock (row path): visibility, first column and width in columns
BookingBlock(booking, ds) ==
    [visible |-> bookingOverlapsRange(booking, ds),
     start |-> visibleStartIndex(booking, ds),
     span |-> visibleEndIndex(booking, ds) - visibleStartIndex(booking, ds) + 1]

\* GridBookingCell (grid path): visibility and width in columns
GridBookingCell(booking, ds) ==
    [visible |-> bookingOverlapsRange(booking, ds),
     span |-> visibleEndIndex(booking, ds) - visibleStartIndex(booking, ds) + 1]

\* cellRenderer of VirtualizedScheduler: does the cell of column col (zero-based)
\* hold the block of this booking
gridCellHolds(booking, ds, col) ==
    /\ bookingOverlapsRange(booking, ds)
    /\ ds[visibleStartIndex(booking, ds) + 1] = ds[col + 1]

\* zero-based columns the block of a booking covers in the row path
rowPathColumns(booking, ds) ==
    LET blk == BookingBlock(booking, ds)
    IN  IF blk.visible
        THEN {c \in 0..(Len(ds) - 1) : blk.start <= c /\ c < blk.start + blk.span}
        ELSE {}

\* zero-based columns the block of a booking covers in the grid path
gridPathColumns(booking, ds) ==
    LET cell == GridBookingCell(booking, ds)
    IN  IF throwsRangeError(booking) THEN {} ELSE
        UNION {IF gridCellHolds(booking, ds, col) /\ cell.visible
               THEN {c \in 0..(Len(ds) - 1) : col <= c /\ c < col + cell.span}
               ELSE {} : col \in 0..(Len(ds) - 1)}


(* -------------------------------- state -------------------------------- *)
VARIABLES
    variant,             \* which scheduler component is mounted
    resources,           \* page state: the resource tree
    bookings,            \* page state: the booking list
    searchTerm,          \* filter bar: resource-name search
    selectedBookingId,   \* filter bar: booking-ID search
    selection,           \* NULL or [resourceId, startDate, endDate]
    selectedBooking,     \* NULL or the booking shown in the modal
    isSelecting,
    modalOpen,
    mouseDownRef,
    startDateRef,
    startResourceIdRef,
    modalTimers,         \* pending setTimeout(() => setModalOpen(true)) callbacks
    debounceRef,         \* OptimizedScheduler: NULL or [date] of the pending debounce
    dragState,           \* [isDragging, draggedBooking, dragOffset, dropTarget]
    button,              \* the pointer button is held down
    pressedBooking,      \* NULL or the booking block under the pointer at press
    gesture,             \* NULL or [booking, ticks]: listeners of BookingBlock.handleMouseDown
    pendingClick,        \* NULL or the booking whose click event is being dispatched
    pressClock,          \* ticks since BookingBlock.handleMouseDown (Date.now() - startTime)
    emitted,             \* what the latest step handed outward: an owner callback or a console line
    load,                \* page: mounted, the loaded flags, and the runs of loadData
    scroll,              \* header and timeline scrollLeft, the guard ref, pending scroll events
    materialized         \* MultiGrid: the columns and rows it calls cellRenderer for

vars == <<variant, resources, bookings, searchTerm, selectedBookingId, selection,
          selectedBooking, isSelecting, modalOpen, mouseDownRef, startDateRef,
          startResourceIdRef, modalTimers, debounceRef, dragState, button,
          pressedBooking, gesture, pendingClick, pressClock, emitted, load,
          scroll, materialized>>

pageVars == <<resources, bookings, load>>
filterVars == <<searchTerm, selectedBookingId>>
refVars == <<mouseDownRef, startDateRef, startResourceIdRef>>
pressVars == <<gesture, pressClock>>
scrollVars == <<scroll, materialized>>

(* ---------------------------- sample data ------------------------------ *)
\* the page after its one loadData has applied what it fetched
LoadedPage ==
    [mounted |-> TRUE, resourcesLoaded |-> TRUE, bookingsLoaded |-> TRUE,
     runs |-> <<[pc |-> "applied", cancelled |-> FALSE,
                 resourcesRes |-> "ok", bookingsRes |-> "ok"]>>]

Child(id, name) == [id |-> id, name |-> name]
Group(id, name, expanded, children) ==
    [id |-> id, name |-> name, expanded |-> expanded, children |-> children]
Booking(id, bid, rid, s, e, text, notes) ==
    [id |-> id, booking_id |-> bid, resourceId |-> rid, startDate |-> s,
     endDate |-> e, text |-> text, notes |-> notes]

\* one group G1 with the room R1, collapsed as in the generated data
SampleResources == <<Group("G1", <<"A">>, FALSE, <<Child("R1", <<"a">>)>>)>>

\* one given booking of R1 that starts inside the window and checks out after it
SampleBookings ==
    <<Booking(101, 12, "R1", StartDay + 1, StartDay + DaysToShow, "Guest", "")>>

\* what the user can type in the modal
BookingNames == {"Smith", " "}
NotesTexts == {"late"}

\* String.prototype.trim is non-empty
trimmed(text) == text # "" /\ text # " "

\* pointer displacements (dx, dy) in px since the press
Displacements == {<<3, 4>>, <<4, 4>>}

\* the step called no owner callback and wrote no console line
Nothing == [kind |-> "none"]

\* nothing has been scrolled: both containers at the left edge, guard clear
RestingScroll ==
    [header |-> 0, timeline |-> 0, isScrolling |-> FALSE, frameRequested |-> FALSE,
     pending |-> {}]

\* a grid small enough for its viewport: every date column and every row of
\* the tree is materialized (zero-based, first and last)
WholeGrid(res) ==
    [columns |-> <<0, Len(dates) - 1>>,
     rows |-> <<0, Len(res) + Cardinality(UNION {{res[i].children[j].id :
                      j \in 1..Len(res[i].children)} : i \in 1..Len(res)}) - 1>>]

IdleDrag ==
    [isDragging |-> FALSE, draggedBooking |-> NULL,
     dragOffset |-> [x |-> 0, y |-> 0], dropTarget |-> NULL]

(* --------------------------- derived state ----------------------------- *)
childIds(res) ==
    UNION {{res[i].children[j].id : j \in 1..Len(res[i].children)} : i \in 1..Len(res)}

\* the scheduler is handed every booking of the page
allBookings == bookings

\* page.js: the bookings handed to the scheduler
validBookings == SelectSeq(bookings, LAMBDA b : b.resourceId \in childIds(resources))

visibleRows ==
    IF variant \in FilterVariants
    THEN visibleRowsFiltered(resources, validBookings, searchTerm, selectedBookingId)
    ELSE flattenPlain(resources)

\* Array.prototype.find by id: the first element with that id, or NULL
findById(seq, id) ==
    IF \E i \in 1..Len(seq) : seq[i].id = id
    THEN seq[CHOOSE i \in 1..Len(seq) :
                seq[i].id = id /\ \A j \in 1..(i - 1) : seq[j].id # id]
    ELSE NULL

\* BookingModal: booking || selection
modalData == IF selectedBooking # NULL THEN selectedBooking ELSE selection

\* Scheduler / OptimizedScheduler: selectedResource
selectedResource ==
    IF selection = NULL THEN NULL
    ELSE IF findById(visibleRows, selection.resourceId) # NULL
         THEN findById(visibleRows, selection.resourceId)
         ELSE IF findById(resources, selection.resourceId) # NULL
              THEN findById(resources, selection.resourceId)
              ELSE LET owners == {i \in 1..Len(resources) :
                          findById(resources[i].children, selection.resourceId) # NULL}
                   IN  IF owners = {} THEN NULL
                       ELSE findById(resources[CHOOSE i \in owners :
                                        \A j \in owners : i <= j].children,
                                     selection.resourceId)

\* the resource prop handed to BookingModal
modalResource ==
    IF variant \in FilterVariants
    THEN IF modalData = NULL THEN NULL
         ELSE findById(visibleRows, modalData.resourceId)
    ELSE selectedResource

\* BookingModal renders (and its backdrop covers the grid)
modalRendered == modalOpen /\ modalData # NULL /\ modalResource # NULL

InitCommon ==
    /\ resources = SampleResources
    /\ bookings = SampleBookings
    /\ searchTerm = <<>>
    /\ selectedBookingId = <<>>
    /\ selection = NULL
    /\ selectedBooking = NULL
    /\ isSelecting = FALSE
    /\ modalOpen = FALSE
    /\ mouseDownRef = FALSE
    /\ startDateRef = NoDate
    /\ startResourceIdRef = NoId
    /\ modalTimers = 0
    /\ debounceRef = NULL
    /\ dragState = IdleDrag
    /\ button = FALSE
    /\ pressedBooking = NULL
    /\ gesture = NULL
    /\ pendingClick = NULL
    /\ pressClock = 0
    /\ emitted = Nothing
    /\ load = LoadedPage
    /\ scroll = RestingScroll
    /\ materialized = WholeGrid(resources)

\* a scheduler without drag support is mounted and the data is loaded
Init == variant \in {VS, SCH, OPT} /\ InitCommon

\* a scheduler with drag support is mounted and the data is loaded
InitDrag == variant \in DragVariants /\ InitCommon


\* MultiGrid calls cellRenderer for this date column (zero-based); the other
\* schedulers render every column
columnMaterialized(col) ==
    variant \in GridVariants =>
        materialized.columns[1] <= col /\ col <= materialized.columns[2]

\* MultiGrid calls cellRenderer for this row of visibleRows (zero-based)
rowMaterialized(row) ==
    variant \in GridVariants =>
        materialized.rows[1] <= row /\ row <= materialized.rows[2]

(* ------------------------- what is on screen --------------------------- *)
\* the date cells the pointer can be over: one per visible row and date
Cells ==
    LET rows == visibleRows
    IN  IF variant \in GridVariants
        THEN {[date |-> dates[c], resourceId |-> rows[i].id] :
                c \in {k \in 1..Len(dates) : columnMaterialized(k - 1)},
                i \in {k \in 1..Len(rows) : rowMaterialized(k - 1)}}
        ELSE {[date |-> dates[c], resourceId |-> rows[i].id] :
                c \in 1..Len(dates), i \in 1..Len(rows)}

\* part_001 cellRenderer: zero-based columns of the inline block of a booking
inlineBlockColumns(booking, ds) ==
    LET startIdx == getDateIndex(booking.startDate, ds)
        endIdx == getDateIndex(booking.endDate, ds)
        duration == endIdx - startIdx
    IN  IF startIdx = NotFound THEN {}
        ELSE {c \in 0..(Len(ds) - 1) : startIdx <= c /\ c < startIdx + duration}

\* zero-based columns the block of a booking covers in the mounted scheduler
blockColumns(booking) ==
    IF variant = VS THEN gridPathColumns(booking, dates)
    ELSE IF variant = DG THEN inlineBlockColumns(booking, dates)
    ELSE rowPathColumns(booking, dates)

\* the block element of a booking is rendered: part_001 renders it in the cell of
\* its start date, the other schedulers when the booking overlaps the window
blockRendered(booking) ==
    IF variant = DG THEN getDateIndex(booking.startDate, dates) # NotFound
    ELSE bookingOverlapsRange(booking, dates)

\* zero-based column of the one cell whose cellRenderer call draws the block
anchorColumn(booking) ==
    IF variant = VS THEN visibleStartIndex(booking, dates)
    ELSE getDateIndex(booking.startDate, dates)

\* the booking blocks on screen, which the pointer can press: in a grid
\* scheduler the block is a child of its anchor cell
shownBlocks ==
    LET rows == visibleRows
    IN  {b \in SeqRange(validBookings) :
            /\ blockRendered(b)
            /\ \E i \in 1..Len(rows) :
                  rows[i].id = b.resourceId /\ rowMaterialized(i - 1)
            /\ variant \in GridVariants => columnMaterialized(anchorColumn(b))}

\* the date cell that owns the block of a booking in the grid schedulers
blockCell(booking) ==
    [date |-> IF variant = VS THEN dates[visibleStartIndex(booking, dates) + 1]
              ELSE booking.startDate,
     resourceId |-> booking.resourceId]

(* ------------------------------ handlers ------------------------------- *)
\* handleCellMouseDown; the changed selection re-runs the mouseup effect, whose
\* cleanup in OptimizedScheduler clears the debounce timer
handleCellMouseDown(date, resourceId) ==
    /\ mouseDownRef' = TRUE
    /\ startDateRef' = date
    /\ startResourceIdRef' = resourceId
    /\ isSelecting' = TRUE
    /\ selection' = [resourceId |-> resourceId, startDate |-> date, endDate |-> date]
    /\ debounceRef' = NULL

\* a handleCellMouseEnter that follows the pointer into every row
onAnyRow(resourceId) == TRUE

\* handleCellMouseEnter: is the entered cell on the row the gesture started on
onStartRow(resourceId) == resourceId = startResourceIdRef

\* a drag that keeps the booking on its own row
dropTargetOnOwnRow(date, resourceId) ==
    [date |-> date, resourceId |-> dragState.draggedBooking.resourceId]

\* handleCellMouseEnter while dragging: the drop target is the entered cell
dropTargetOver(date, resourceId) ==
    [date |-> date, resourceId |-> resourceId]

\* an onMouseUp that commits the selection as dragged, without the swap
normalizedAsDragged(sel, ds) == sel

\* the selection after the normalisation of onMouseUp / handleMouseUp
normalized(sel, ds) ==
    LET startIdx == getDateIndex(sel.startDate, ds)
        endIdx == getDateIndex(sel.endDate, ds)
    IN  [sel EXCEPT !.startDate = IF startIdx <= endIdx THEN sel.startDate ELSE sel.endDate,
                    !.endDate = IF startIdx <= endIdx THEN sel.endDate ELSE sel.startDate]

\* an onMouseUp that commits whatever selection is there
mouseUpGuardAnySelection == selection # NULL

\* the guard of the selection branch of onMouseUp / handleMouseUp
mouseUpGuard ==
    IF variant \in {SCH, OPT}
    THEN mouseDownRef /\ isSelecting /\ selection # NULL
    ELSE mouseDownRef /\ selection # NULL

\* the selection branch of onMouseUp / handleMouseUp
finishSelection ==
    /\ mouseDownRef' = FALSE
    /\ isSelecting' = FALSE
    /\ debounceRef' = NULL
    /\ selection' = normalized(selection, dates)
    /\ modalTimers' = modalTimers + 1

\* handleBookingDragStart
handleBookingDragStart(booking) ==
    dragState' = [isDragging |-> TRUE, draggedBooking |-> booking,
                  dragOffset |-> [x |-> 0, y |-> 0], dropTarget |-> NULL]

\* handleBookingDragEnd: the relocated span, preserving the duration in days
\* a relocation that counts the nights of the booking with both ends included
relocatedSpanInclusive(booking, targetDate, targetResourceId) ==
    LET duration == booking.endDate - booking.startDate + 1
    IN  [resourceId |-> targetResourceId, startDate |-> targetDate,
         endDate |-> targetDate + duration]

relocatedSpan(booking, targetDate, targetResourceId) ==
    LET duration == booking.endDate - booking.startDate
    IN  [resourceId |-> targetResourceId, startDate |-> targetDate,
         endDate |-> targetDate + duration]

\* the callbacks through which the scheduler hands anything to its owner
OwnerCallbacks == {"onBookingCreate", "onResourcesChange"}

\* an onMouseUp that drops the booking where it was when nothing else resolves
finalDropTargetOrOrigin(target) ==
    IF dragState.dropTarget # NULL THEN dragState.dropTarget
    ELSE IF target # NULL THEN target
    ELSE [date |-> dragState.draggedBooking.startDate,
          resourceId |-> dragState.draggedBooking.resourceId]

\* onMouseUp while dragging: the drop target tracked during the move, else the
\* date cell found under the pointer at release (NULL when there is none)
finalDropTarget(target) ==
    IF dragState.dropTarget # NULL THEN dragState.dropTarget ELSE target

\* handleBookingDragEnd with a target: the line it writes to the console; it calls
\* no callback of the owner
handleBookingDragEnd(booking, targetDate, targetResourceId) ==
    [kind |-> "console.log",
     from |-> booking,
     to |-> relocatedSpan(booking, targetDate, targetResourceId)]

\* handleBookingClick
handleBookingClick(booking) ==
    /\ selectedBooking' = booking
    /\ selection' = NULL
    /\ modalOpen' = TRUE

\* handleModalClose
\* a close that hides the modal and leaves the selection machine as it is
handleModalCloseHideOnly ==
    /\ modalOpen' = FALSE
    /\ selectedBooking' = NULL
    /\ UNCHANGED <<selection, mouseDownRef, isSelecting>>

handleModalClose ==
    /\ modalOpen' = FALSE
    /\ selection' = NULL
    /\ selectedBooking' = NULL
    /\ mouseDownRef' = FALSE
    /\ isSelecting' = FALSE

\* a handleConfirm that hands on a one-day span instead of the selected one
confirmDataOneDay(name, notes) ==
    [id |-> IF selectedBooking # NULL THEN selectedBooking.id ELSE Undefined,
     booking_id |-> IF selectedBooking # NULL THEN selectedBooking.booking_id ELSE Undefined,
     resourceId |-> modalData.resourceId,
     startDate |-> modalData.startDate,
     endDate |-> modalData.startDate,
     text |-> name,
     notes |-> notes]

\* BookingModal.handleConfirm: the data handed to onConfirm
confirmData(name, notes) ==
    [id |-> IF selectedBooking # NULL THEN selectedBooking.id ELSE Undefined,
     booking_id |-> IF selectedBooking # NULL THEN selectedBooking.booking_id ELSE Undefined,
     resourceId |-> modalData.resourceId,
     startDate |-> modalData.startDate,
     endDate |-> modalData.endDate,
     text |-> name,
     notes |-> notes]

\* page.js handleBookingCreate: { id: bookings.length + 1, ...bookingData }
newBooking(bookingData, bks) ==
    [bookingData EXCEPT !.id = IF bookingData.id = Undefined THEN Len(bks) + 1
                                ELSE bookingData.id]

handleBookingCreate(bookingData) ==
    bookings' = Append(bookings, newBooking(bookingData, bookings))

\* handleToggleExpand: the tree handed to onResourcesChange
\* a handleToggleExpand that flips every group at once
toggledEveryGroup(res, parentId) ==
    [i \in 1..Len(res) |-> [res[i] EXCEPT !.expanded = ~res[i].expanded]]

\* a handleToggleExpand that opens a group and never closes one
toggledOpenOnly(res, parentId) ==
    [i \in 1..Len(res) |->
        IF res[i].id = parentId THEN [res[i] EXCEPT !.expanded = TRUE]
        ELSE res[i]]

\* a handleToggleExpand that maps over the groups as the filters left them
toggledAsShown(res, parentId) ==
    LET shown == IF selectedBookingId # <<>>
                 THEN filterByBookingId(res, validBookings, selectedBookingId)
                 ELSE res
    IN  [i \in 1..Len(shown) |->
            IF shown[i].id = parentId
            THEN [shown[i] EXCEPT !.expanded = ~shown[i].expanded]
            ELSE shown[i]]

toggled(res, parentId) ==
    [i \in 1..Len(res) |->
        IF res[i].id = parentId THEN [res[i] EXCEPT !.expanded = ~res[i].expanded]
        ELSE res[i]]

\* handleToggleExpand called for one group after the other, each call on the
\* tree the owner kept from the call before
RECURSIVE toggleAll(_, _)
toggleAll(res, order) ==
    IF order = <<>> THEN res
    ELSE toggleAll(toggled(res, Head(order)), Tail(order))


(* ------------------------------- actions ------------------------------- *)
\* the pointer button goes down on a date cell (one of Cells)
CellMouseDown(cell) ==
    /\ ~button /\ pendingClick = NULL /\ ~modalRendered
    /\ handleCellMouseDown(cell.date, cell.resourceId)
    /\ button' = TRUE
    /\ pressedBooking' = NULL
    /\ emitted' = Nothing
    /\ UNCHANGED <<variant, scrollVars, pageVars, filterVars, selectedBooking, modalOpen,
                   modalTimers, dragState, pressVars, pendingClick>>

\* the pointer button goes down on the block of a booking:
\*   VirtualizedScheduler: GridBookingCell has no mousedown handler, the event
\*     bubbles to the date cell that holds the block;
\*   part_001: the inline block calls handleBookingDragStart at once;
\*   part_002: BookingBlock.handleMouseDown installs its move/up listeners
BlockMouseDown(b) ==
    /\ ~button /\ pendingClick = NULL /\ ~modalRendered
    /\ variant \in {VS, DG, DR}
    /\ button' = TRUE
    /\ pressedBooking' = b
    /\ pressClock' = 0
    /\ CASE variant = VS ->
              /\ handleCellMouseDown(blockCell(b).date, blockCell(b).resourceId)
              /\ UNCHANGED <<dragState, gesture>>
         [] variant = DG ->
              /\ handleBookingDragStart(b)
              /\ UNCHANGED <<refVars, isSelecting, selection, debounceRef, gesture>>
         [] OTHER ->
              /\ gesture' = [booking |-> b]
              /\ UNCHANGED <<refVars, isSelecting, selection, debounceRef, dragState>>
    /\ emitted' = Nothing
    /\ UNCHANGED <<variant, scrollVars, pageVars, filterVars, selectedBooking, modalOpen,
                   modalTimers, pendingClick>>

\* the pointer button goes down outside every cell and block
OtherMouseDown ==
    /\ ~button /\ pendingClick = NULL
    /\ button' = TRUE
    /\ pressedBooking' = NULL
    /\ emitted' = Nothing
    /\ UNCHANGED <<variant, scrollVars, pageVars, filterVars, selection, selectedBooking,
                   isSelecting, modalOpen, refVars, modalTimers, debounceRef,
                   dragState, pressVars, pendingClick>>

\* handleCellMouseEnter: the pointer enters a date cell (one of Cells)
CellMouseEnter(cell) ==
    /\ pendingClick = NULL /\ ~modalRendered
    /\ IF variant \in DragVariants /\ dragState.isDragging
       THEN /\ dragState' = [dragState EXCEPT
                               !.dropTarget = dropTargetOver(cell.date, cell.resourceId)]
            /\ UNCHANGED <<selection, debounceRef>>
       ELSE IF ~mouseDownRef \/ ~isSelecting \/ ~onStartRow(cell.resourceId)
       THEN UNCHANGED <<dragState, selection, debounceRef>>
       ELSE IF variant = OPT
       THEN /\ debounceRef' = [date |-> cell.date]
            /\ UNCHANGED <<dragState, selection>>
       ELSE /\ selection' = IF selection # NULL
                            THEN [selection EXCEPT !.endDate = cell.date]
                            ELSE NULL
            /\ UNCHANGED <<dragState, debounceRef>>
    /\ emitted' = Nothing
    /\ UNCHANGED <<variant, scrollVars, pageVars, filterVars, selectedBooking, isSelecting,
                   modalOpen, refVars, modalTimers, button, pressedBooking,
                   pressVars, pendingClick>>

\* the debounce timer of OptimizedScheduler.handleCellMouseEnter fires
DebounceTimer ==
    /\ debounceRef # NULL
    /\ pendingClick = NULL
    /\ selection' = IF selection # NULL
                    THEN [selection EXCEPT !.endDate = debounceRef.date]
                    ELSE NULL
    /\ debounceRef' = NULL
    /\ emitted' = Nothing
    /\ UNCHANGED <<variant, scrollVars, pageVars, filterVars, selectedBooking, isSelecting,
                   modalOpen, refVars, modalTimers, dragState, button,
                   pressedBooking, pressVars, pendingClick>>

\* is the displacement beyond the distance threshold
beyondDistance(disp) ==
    disp[1] * disp[1] + disp[2] * disp[2] > DragDistancePx * DragDistancePx

\* a mousemove while a booking block is pressed or dragged:
\*   BookingBlock.handleMouseMove (document listener) while its listeners are
\*   installed, else handleBookingDragMove (window listener)
MouseMove(target, disp) ==
    /\ variant \in DragVariants
    /\ button /\ pendingClick = NULL
    /\ gesture # NULL \/ dragState.isDragging
    /\ target = NULL \/ ~modalRendered
    /\ IF gesture # NULL
       THEN IF beyondDistance(disp) \/ pressClock * TickMs > DragHoldMs
            THEN /\ gesture' = NULL
                 /\ pressClock' = 0
                 /\ handleBookingDragStart(gesture.booking)
            ELSE UNCHANGED <<gesture, pressClock, dragState>>
       ELSE /\ dragState' = [dragState EXCEPT
                                !.dragOffset = [x |-> disp[1], y |-> disp[2]],
                                !.dropTarget = target]
            /\ UNCHANGED <<gesture, pressClock>>
    /\ emitted' = Nothing
    /\ UNCHANGED <<variant, scrollVars, pageVars, filterVars, selection, selectedBooking,
                   isSelecting, modalOpen, refVars, modalTimers, debounceRef,
                   button, pressedBooking, pendingClick>>

\* time passes while the listeners of BookingBlock.handleMouseDown are installed
Tick ==
    /\ gesture # NULL
    /\ button /\ pendingClick = NULL
    /\ pressClock < MaxTicks
    /\ pressClock' = pressClock + 1
    /\ emitted' = Nothing
    /\ UNCHANGED <<variant, scrollVars, pageVars, filterVars, selection, selectedBooking,
                   isSelecting, modalOpen, refVars, modalTimers, debounceRef,
                   dragState, button, pressedBooking, gesture, pendingClick>>

\* the click event that follows a release over the pressed block
clickAfter(onBlock) ==
    IF onBlock /\ variant \in {VS, DG} THEN pressedBooking ELSE NULL

\* the button is released while the listeners of BookingBlock.handleMouseDown are
\* installed: BookingBlock.handleMouseUp runs, then the window's onMouseUp
GestureMouseUp ==
    /\ button /\ pendingClick = NULL
    /\ gesture # NULL
    /\ mouseUpGuard => modalTimers < MaxTimers
    /\ LET click == pressClock * TickMs < DragHoldMs /\ ~dragState.isDragging
       IN  IF mouseUpGuard
           THEN /\ finishSelection
                /\ selectedBooking' = IF click THEN gesture.booking ELSE selectedBooking
                /\ modalOpen' = (click \/ modalOpen)
           ELSE /\ IF click THEN handleBookingClick(gesture.booking)
                   ELSE UNCHANGED <<selectedBooking, selection, modalOpen>>
                /\ UNCHANGED <<mouseDownRef, isSelecting, debounceRef, modalTimers>>
    /\ gesture' = NULL
    /\ button' = FALSE
    /\ pressedBooking' = NULL
    /\ pressClock' = 0
    /\ emitted' = Nothing
    /\ UNCHANGED <<variant, scrollVars, pageVars, filterVars, startDateRef, startResourceIdRef,
                   dragState, pendingClick>>

\* onMouseUp while dragging: the drop target set during the move, else the cell
\* under the pointer; handleBookingDragEnd or the reset
DragMouseUp(target, onBlock) ==
    /\ button /\ pendingClick = NULL
    /\ gesture = NULL
    /\ variant \in DragVariants /\ dragState.isDragging
    /\ target = NULL \/ ~modalRendered
    /\ onBlock => (/\ pressedBooking # NULL /\ ~modalRendered /\ variant = DG
                   /\ target = blockCell(pressedBooking))
    /\ dragState' = IdleDrag
    /\ pendingClick' = clickAfter(onBlock)
    /\ button' = FALSE
    /\ pressedBooking' = NULL
    /\ pressClock' = 0
    /\ emitted' = IF finalDropTarget(target) # NULL /\ dragState.draggedBooking # NULL
                  THEN handleBookingDragEnd(dragState.draggedBooking,
                                            finalDropTarget(target).date,
                                            finalDropTarget(target).resourceId)
                  ELSE Nothing
    /\ UNCHANGED <<variant, scrollVars, pageVars, filterVars, selection, selectedBooking,
                   isSelecting, modalOpen, refVars, modalTimers, debounceRef,
                   gesture>>

\* onMouseUp / handleMouseUp outside a drag: the selection is normalised and the
\* modal-open timer is started; a mouseup with no active selection does nothing
SelectionMouseUp(onBlock) ==
    /\ button /\ pendingClick = NULL
    /\ gesture = NULL
    /\ ~(variant \in DragVariants /\ dragState.isDragging)
    /\ onBlock => (pressedBooking # NULL /\ ~modalRendered /\ variant \in {VS, DG})
    /\ mouseUpGuard => modalTimers < MaxTimers
    /\ IF mouseUpGuard THEN finishSelection
       ELSE UNCHANGED <<mouseDownRef, isSelecting, debounceRef, selection, modalTimers>>
    /\ pendingClick' = clickAfter(onBlock)
    /\ button' = FALSE
    /\ pressedBooking' = NULL
    /\ pressClock' = 0
    /\ emitted' = Nothing
    /\ UNCHANGED <<variant, scrollVars, pageVars, filterVars, selectedBooking, modalOpen,
                   startDateRef, startResourceIdRef, dragState, gesture>>

\* the click event on a booking block: handleBookingClick
BookingClick ==
    /\ pendingClick # NULL
    /\ IF variant = DG /\ dragState.isDragging
       THEN UNCHANGED <<selectedBooking, selection, modalOpen>>
       ELSE handleBookingClick(pendingClick)
    /\ pendingClick' = NULL
    /\ emitted' = Nothing
    /\ UNCHANGED <<variant, scrollVars, pageVars, filterVars, isSelecting, refVars, modalTimers,
                   debounceRef, dragState, button, pressedBooking, pressVars>>

\* the callback of setTimeout(() => setModalOpen(true)) runs
ModalTimer ==
    /\ modalTimers > 0
    /\ pendingClick = NULL
    /\ modalOpen' = TRUE
    /\ modalTimers' = modalTimers - 1
    /\ emitted' = Nothing
    /\ UNCHANGED <<variant, scrollVars, pageVars, filterVars, selection, selectedBooking,
                   isSelecting, refVars, debounceRef, dragState, button,
                   pressedBooking, pressVars, pendingClick>>

\* BookingModal.handleConfirm with the typed name and notes: onConfirm
\* (handleBookingConfirm: onBookingCreate, handleModalClose), then onClose
ModalConfirm(name, notes) ==
    /\ ~button /\ pendingClick = NULL /\ modalRendered
    /\ IF trimmed(name)
       THEN /\ Len(bookings) < MaxBookings
            /\ handleBookingCreate(confirmData(name, notes))
            /\ handleModalClose
       ELSE UNCHANGED <<bookings, modalOpen, selection, selectedBooking,
                        mouseDownRef, isSelecting>>
    /\ emitted' = IF trimmed(name)
                  THEN [kind |-> "onBookingCreate", data |-> confirmData(name, notes)]
                  ELSE Nothing
    /\ UNCHANGED <<variant, scrollVars, resources, load, filterVars, startDateRef, startResourceIdRef,
                   modalTimers, debounceRef, dragState, button, pressedBooking,
                   pressVars, pendingClick>>

\* the Cancel button or a click on the backdrop: onClose
ModalClose ==
    /\ modalRendered /\ ~button /\ pendingClick = NULL
    /\ handleModalClose
    /\ emitted' = Nothing
    /\ UNCHANGED <<variant, scrollVars, pageVars, filterVars, startDateRef, startResourceIdRef,
                   modalTimers, debounceRef, dragState, button, pressedBooking,
                   pressVars, pendingClick>>

\* handleToggleExpand; Scheduler also clears a selection on a child of the group
ToggleExpand(parentId) ==
    /\ ~modalRendered /\ ~button /\ pendingClick = NULL
    /\ \E i \in 1..Len(visibleRows) :
          visibleRows[i].type = "parent" /\ visibleRows[i].id = parentId
    /\ resources' = toggled(resources, parentId)
    /\ LET selectedRow == IF selection = NULL THEN NULL
                          ELSE findById(visibleRows, selection.resourceId)
       IN  IF /\ variant = SCH
              /\ selection # NULL
              /\ selection.resourceId # parentId
              /\ selectedRow # NULL
              /\ selectedRow.type = "child"
              /\ selectedRow.parentId = parentId
           THEN /\ selection' = NULL
                /\ isSelecting' = FALSE
                /\ mouseDownRef' = FALSE
           ELSE UNCHANGED <<selection, isSelecting, mouseDownRef>>
    /\ emitted' = [kind |-> "onResourcesChange", tree |-> toggled(resources, parentId)]
    /\ UNCHANGED <<variant, scrollVars, bookings, load, filterVars, selectedBooking, modalOpen,
                   startDateRef, startResourceIdRef, modalTimers, debounceRef,
                   dragState, button, pressedBooking, pressVars, pendingClick>>

Targets == Cells \cup {NULL}

\* the steps of the schedulers without drag support
Next ==
    \/ \E cell \in Cells : CellMouseDown(cell)
    \/ \E b \in shownBlocks : BlockMouseDown(b)
    \/ OtherMouseDown
    \/ \E cell \in Cells : CellMouseEnter(cell)
    \/ DebounceTimer
    \/ \E onBlock \in BOOLEAN : SelectionMouseUp(onBlock)
    \/ BookingClick
    \/ ModalTimer
    \/ \E name \in BookingNames, notes \in NotesTexts : ModalConfirm(name, notes)
    \/ ModalClose
    \/ \E parentId \in {resources[i].id : i \in 1..Len(resources)} : ToggleExpand(parentId)

Spec == Init /\ [][Next]_vars

\* the steps of the schedulers with drag support
NextDrag ==
    \/ \E cell \in Cells : CellMouseDown(cell)
    \/ \E b \in shownBlocks : BlockMouseDown(b)
    \/ OtherMouseDown
    \/ \E cell \in Cells : CellMouseEnter(cell)
    \/ \E target \in Targets, disp \in Displacements : MouseMove(target, disp)
    \/ Tick
    \/ GestureMouseUp
    \/ \E target \in Targets, onBlock \in BOOLEAN : DragMouseUp(target, onBlock)
    \/ \E onBlock \in BOOLEAN : SelectionMouseUp(onBlock)
    \/ BookingClick
    \/ ModalTimer
    \/ \E name \in BookingNames, notes \in NotesTexts : ModalConfirm(name, notes)
    \/ ModalClose
    \/ \E parentId \in {resources[i].id : i \in 1..Len(resources)} : ToggleExpand(parentId)

SpecDrag == InitDrag /\ [][NextDrag]_vars

(* --------------------------- the filter bar ---------------------------- *)
\* what the user can type in the search box and in the booking-ID box
SearchTerms == {<<"a">>, <<"b">>, <<"A", "b">>}
BookingIdTerms == {<<"1">>, <<"3">>}

\* resource trees the page can load: two groups, each expanded or collapsed
FilterTrees ==
    {<<Group("G1", n1, e1, <<Child("R1", <<"a">>), Child("R2", <<"b">>)>>),
       Group("G2", <<"B">>, e2, <<Child("R3", c3)>>)>> :
        n1 \in {<<"A">>, <<"B">>}, e1 \in BOOLEAN, e2 \in BOOLEAN,
        c3 \in {<<"a", "b">>, <<"B">>}}

FilterBookings ==
    <<Booking(101, 12, "R1", StartDay, StartDay + 1, "Guest", ""),
      Booking(102, 3, "R3", StartDay, StartDay + 2, "Guest", "")>>

\* VirtualizedScheduler is mounted over some loaded tree
InitFilter ==
    /\ variant = VS
    /\ resources \in FilterTrees
    /\ bookings = FilterBookings
    /\ searchTerm = <<>>
    /\ selectedBookingId = <<>>
    /\ selection = NULL
    /\ selectedBooking = NULL
    /\ isSelecting = FALSE
    /\ modalOpen = FALSE
    /\ mouseDownRef = FALSE
    /\ startDateRef = NoDate
    /\ startResourceIdRef = NoId
    /\ modalTimers = 0
    /\ debounceRef = NULL
    /\ dragState = IdleDrag
    /\ button = FALSE
    /\ pressedBooking = NULL
    /\ gesture = NULL
    /\ pendingClick = NULL
    /\ pressClock = 0
    /\ emitted = Nothing
    /\ load = LoadedPage
    /\ scroll = RestingScroll
    /\ materialized = WholeGrid(resources)

\* onSearchChange={setSearchTerm}: the search box now holds term
SetSearchTerm(term) ==
    /\ variant \in FilterVariants
    /\ ~modalRendered /\ ~button /\ pendingClick = NULL
    /\ searchTerm' = term
    /\ emitted' = Nothing
    /\ UNCHANGED <<variant, scrollVars, pageVars, selectedBookingId, selection, selectedBooking,
                   isSelecting, modalOpen, refVars, modalTimers, debounceRef,
                   dragState, button, pressedBooking, pressVars, pendingClick>>

\* onBookingIdChange={setSelectedBookingId}: the booking-ID box now holds bid
SetSelectedBookingId(bid) ==
    /\ variant \in FilterVariants
    /\ ~modalRendered /\ ~button /\ pendingClick = NULL
    /\ selectedBookingId' = bid
    /\ emitted' = Nothing
    /\ UNCHANGED <<variant, scrollVars, pageVars, searchTerm, selection, selectedBooking,
                   isSelecting, modalOpen, refVars, modalTimers, debounceRef,
                   dragState, button, pressedBooking, pressVars, pendingClick>>

\* onClearFilters: the Clear button, shown while a filter is set
ClearFilters ==
    /\ variant \in FilterVariants
    /\ ~modalRendered /\ ~button /\ pendingClick = NULL
    /\ searchTerm # <<>> \/ selectedBookingId # <<>>
    /\ searchTerm' = <<>>
    /\ selectedBookingId' = <<>>
    /\ emitted' = Nothing
    /\ UNCHANGED <<variant, scrollVars, pageVars, selection, selectedBooking,
                   isSelecting, modalOpen, refVars, modalTimers, debounceRef,
                   dragState, button, pressedBooking, pressVars, pendingClick>>

\* the steps of the filter bar and the expand buttons
NextFilter ==
    \/ \E term \in SearchTerms \cup {<<>>} : SetSearchTerm(term)
    \/ \E bid \in BookingIdTerms \cup {<<>>} : SetSelectedBookingId(bid)
    \/ ClearFilters
    \/ \E parentId \in {resources[i].id : i \in 1..Len(resources)} : ToggleExpand(parentId)

SpecFilter == InitFilter /\ [][NextFilter]_vars

\* how far outside the window the loaded bookings start and end
MaxOff == 2

\* days in and around the window
WindowKeys == (StartDay - MaxOff)..(StartDay + DaysToShow - 1 + MaxOff)

\* the start and end keys of the bookings the page can load: days in and around
\* the window, and keys that are no dates
LayoutKeys ==
    (StartDay - MaxOff)..(StartDay + DaysToShow - 1 + MaxOff)
        \cup {MalformedBefore, MalformedAfter}

\* a scheduler is mounted over one loaded booking on the room R1
InitLayout ==
    /\ variant \in Variants
    /\ resources = SampleResources
    /\ bookings \in {<<Booking(101, 12, "R1", s, e, "Guest", "")>> :
                        s \in LayoutKeys, e \in LayoutKeys}
    /\ searchTerm = <<>>
    /\ selectedBookingId = <<>>
    /\ selection = NULL
    /\ selectedBooking = NULL
    /\ isSelecting = FALSE
    /\ modalOpen = FALSE
    /\ mouseDownRef = FALSE
    /\ startDateRef = NoDate
    /\ startResourceIdRef = NoId
    /\ modalTimers = 0
    /\ debounceRef = NULL
    /\ dragState = IdleDrag
    /\ button = FALSE
    /\ pressedBooking = NULL
    /\ gesture = NULL
    /\ pendingClick = NULL
    /\ pressClock = 0
    /\ emitted = Nothing
    /\ load = LoadedPage
    /\ scroll = RestingScroll
    /\ materialized = WholeGrid(resources)

\* the group is opened or closed, and the rows and blocks are rendered anew
NextLayout ==
    \E parentId \in {resources[i].id : i \in 1..Len(resources)} : ToggleExpand(parentId)

SpecLayout == InitLayout /\ [][NextLayout]_vars

\* booking.booking_id.toString() on a booking without booking_id is a call on
\* undefined: the filter callback of visibleRows and of bookingSuggestions
\* throws a TypeError as soon as a booking-ID filter is set
throwsTypeError(bks, bid) ==
    /\ bid # <<>>
    /\ \E k \in 1..Len(bks) : bks[k].booking_id = Undefined

\* the render of the scheduler with a filter bar throws: React unmounts the page
renderThrows ==
    /\ variant \in FilterVariants
    /\ throwsTypeError(validBookings, selectedBookingId)

\* VirtualizedScheduler is mounted by the page over the loaded data
InitCreate == variant = VS /\ InitCommon

\* selecting, confirming and filtering in VirtualizedScheduler, for as long as
\* the page is mounted
NextCreate ==
    /\ ~renderThrows
    /\ \/ \E cell \in Cells : CellMouseDown(cell)
       \/ \E cell \in Cells : CellMouseEnter(cell)
       \/ \E onBlock \in BOOLEAN : SelectionMouseUp(onBlock)
       \/ ModalTimer
       \/ \E name \in BookingNames, notes \in NotesTexts : ModalConfirm(name, notes)
       \/ ModalClose
       \/ \E parentId \in {resources[i].id : i \in 1..Len(resources)} :
             ToggleExpand(parentId)
       \/ \E bid \in BookingIdTerms \cup {<<>>} : SetSelectedBookingId(bid)
       \/ ClearFilters

SpecCreate == InitCreate /\ [][NextCreate]_vars

(* ------------------------ scrolling the MultiGrid ---------------------- *)
\* the column and row ranges MultiGrid can materialize: a run of neighbours,
\* wherever the grid is scrolled to and however wide the viewport is
ColumnWindows ==
    {w \in (0..(Len(dates) - 1)) \X (0..(Len(dates) - 1)) : w[1] <= w[2]}

RowWindows(res) ==
    {w \in (0..WholeGrid(res).rows[2]) \X (0..WholeGrid(res).rows[2]) : w[1] <= w[2]}

\* a grid scheduler over one loaded stay of room R1
InitGrid ==
    /\ variant \in GridVariants
    /\ resources = SampleResources
    /\ bookings \in {<<Booking(101, 12, "R1", stay[1], stay[2], "Guest", "")>> :
                        stay \in {w \in WindowKeys \X WindowKeys : w[1] < w[2]}}
    /\ searchTerm = <<>>
    /\ selectedBookingId = <<>>
    /\ selection = NULL
    /\ selectedBooking = NULL
    /\ isSelecting = FALSE
    /\ modalOpen = FALSE
    /\ mouseDownRef = FALSE
    /\ startDateRef = NoDate
    /\ startResourceIdRef = NoId
    /\ modalTimers = 0
    /\ debounceRef = NULL
    /\ dragState = IdleDrag
    /\ button = FALSE
    /\ pressedBooking = NULL
    /\ gesture = NULL
    /\ pendingClick = NULL
    /\ pressClock = 0
    /\ emitted = Nothing
    /\ load = LoadedPage
    /\ scroll = RestingScroll
    /\ materialized = WholeGrid(resources)

\* the grid is scrolled: MultiGrid renders again and calls cellRenderer for the
\* cells of its new window only
GridScrolled(columns, rows) ==
    /\ materialized' = [columns |-> columns, rows |-> rows]
    /\ emitted' = Nothing
    /\ UNCHANGED <<variant, scroll, pageVars, filterVars, selection, selectedBooking,
                   isSelecting, modalOpen, refVars, modalTimers, debounceRef,
                   dragState, button, pressedBooking, pressVars, pendingClick>>

NextGrid ==
    \/ \E columns \in ColumnWindows, rows \in RowWindows(resources) :
          GridScrolled(columns, rows)
    \/ \E parentId \in {resources[i].id : i \in 1..Len(resources)} : ToggleExpand(parentId)

SpecGrid == InitGrid /\ [][NextGrid]_vars

(* ----------------------- horizontal scroll sync ------------------------ *)
\* the scroll positions a container can be at, in date columns
MaxScrollLeft == 2

\* the schedulers with a header container and a timeline container of their own
ScrollVariants == {SCH, OPT, DR}

ScrollContainers == {"header", "timeline"}

otherContainer(source) == IF source = "header" THEN "timeline" ELSE "header"

\* handleHeaderScroll / handleTimelineScroll / syncScroll: return while the
\* guard is set; otherwise set it, copy scrollLeft to the other container (the
\* browser queues a scroll event for a container whose scrollLeft changed) and
\* ask for an animation frame
syncScroll(s, source) ==
    IF s.isScrolling
    THEN [s EXCEPT !.pending = @ \ {source}]
    ELSE [s EXCEPT ![otherContainer(source)] = s[source],
                   !.isScrolling = TRUE,
                   !.frameRequested = TRUE,
                   !.pending = (@ \ {source}) \cup
                               (IF s[otherContainer(source)] # s[source]
                                THEN {otherContainer(source)} ELSE {})]

InitScroll == variant \in ScrollVariants /\ InitCommon

\* the user scrolls one container: the browser moves it and queues its scroll event
UserScroll(source, left) ==
    /\ scroll[source] # left
    /\ scroll' = [scroll EXCEPT ![source] = left, !.pending = @ \cup {source}]
    /\ emitted' = Nothing
    /\ UNCHANGED <<variant, materialized, pageVars, filterVars, selection,
                   selectedBooking, isSelecting, modalOpen, refVars, modalTimers,
                   debounceRef, dragState, button, pressedBooking, pressVars,
                   pendingClick>>

\* a queued scroll event is dispatched to the onScroll handler of its container
ScrollEvent(source) ==
    /\ source \in scroll.pending
    /\ scroll' = syncScroll(scroll, source)
    /\ emitted' = Nothing
    /\ UNCHANGED <<variant, materialized, pageVars, filterVars, selection,
                   selectedBooking, isSelecting, modalOpen, refVars, modalTimers,
                   debounceRef, dragState, button, pressedBooking, pressVars,
                   pendingClick>>

\* the requestAnimationFrame callback clears the guard
AnimationFrame ==
    /\ scroll.frameRequested
    /\ scroll' = [scroll EXCEPT !.isScrolling = FALSE, !.frameRequested = FALSE]
    /\ emitted' = Nothing
    /\ UNCHANGED <<variant, materialized, pageVars, filterVars, selection,
                   selectedBooking, isSelecting, modalOpen, refVars, modalTimers,
                   debounceRef, dragState, button, pressedBooking, pressVars,
                   pendingClick>>

NextScroll ==
    \/ \E source \in ScrollContainers, left \in 0..MaxScrollLeft : UserScroll(source, left)
    \/ \E source \in ScrollContainers : ScrollEvent(source)
    \/ AnimationFrame

SpecScroll == InitScroll /\ [][NextScroll]_vars

(* --------------------------- loading the page -------------------------- *)
\* how often the page is mounted, each mount starting one loadData
MaxLoads == 2

\* what the two responses can hold once parsed and normalised
LoadedTrees == {SampleResources, <<>>}
LoadedBookings == {SampleBookings, <<>>}

\* the scheduler below the page, which is not rendered while the page loads
schedulerVars ==
    <<variant, scrollVars, filterVars, selection, selectedBooking, isSelecting, modalOpen,
      refVars, modalTimers, debounceRef, dragState, button, pressedBooking,
      pressVars, pendingClick>>

\* a loadData that has just been called: cancelled is false, both fetches are out
StartedLoad ==
    [pc |-> "fetching", cancelled |-> FALSE,
     resourcesRes |-> "pending", bookingsRes |-> "pending"]

\* a response that arrived: fetch resolves on any HTTP status, and an error
\* status comes with a JSON body that has no data member
ResponseKinds == {"ok", "error"}

\* the awaits of loadData, in order
PendingPcs == {"fetching", "resourcesJson", "bookingsJson"}

\* if (cancelled) return
staleIsApplied(run) == FALSE

staleIsDiscarded(run) == run.cancelled

\* the page as useState initialises it, and the effect has called loadData
InitLoad ==
    /\ variant = VS
    /\ resources = <<>>
    /\ bookings = <<>>
    /\ load = [mounted |-> TRUE, resourcesLoaded |-> FALSE, bookingsLoaded |-> FALSE,
               runs |-> <<StartedLoad>>]
    /\ searchTerm = <<>>
    /\ selectedBookingId = <<>>
    /\ selection = NULL
    /\ selectedBooking = NULL
    /\ isSelecting = FALSE
    /\ modalOpen = FALSE
    /\ mouseDownRef = FALSE
    /\ startDateRef = NoDate
    /\ startResourceIdRef = NoId
    /\ modalTimers = 0
    /\ debounceRef = NULL
    /\ dragState = IdleDrag
    /\ button = FALSE
    /\ pressedBooking = NULL
    /\ gesture = NULL
    /\ pendingClick = NULL
    /\ pressClock = 0
    /\ emitted = Nothing
    /\ scroll = RestingScroll
    /\ materialized = WholeGrid(SampleResources)

\* both fetches resolved: loadData resumes after Promise.all with the two
\* responses, whose status it does not look at, and asks for the first body
AllFetched(i, resourcesRes, bookingsRes) ==
    /\ load.runs[i].pc = "fetching"
    /\ load' = [load EXCEPT !.runs[i].pc = "resourcesJson",
                            !.runs[i].resourcesRes = resourcesRes,
                            !.runs[i].bookingsRes = bookingsRes]
    /\ emitted' = Nothing
    /\ UNCHANGED <<resources, bookings, schedulerVars>>

\* the resources body is parsed: loadData asks for the second body
ResourcesParsed(i) ==
    /\ load.runs[i].pc = "resourcesJson"
    /\ load' = [load EXCEPT !.runs[i].pc = "bookingsJson"]
    /\ emitted' = Nothing
    /\ UNCHANGED <<resources, bookings, schedulerVars>>

\* the bookings body is parsed: loadData tests cancelled and, unless it is set,
\* normalises the reservations (bookingsJson.data.reservations throws when the
\* body has no data) and writes the resources (resourcesJson?.data?.apt_build_details
\* || []), the bookings and both loaded flags
BookingsParsed(i, tree, reservations) ==
    /\ load.runs[i].pc = "bookingsJson"
    /\ IF staleIsDiscarded(load.runs[i])
       THEN /\ load' = [load EXCEPT !.runs[i].pc = "discarded"]
            /\ emitted' = Nothing
            /\ UNCHANGED <<resources, bookings>>
       ELSE IF load.runs[i].bookingsRes = "error"
       THEN /\ load' = [load EXCEPT !.runs[i].pc = "failed"]
            /\ emitted' = [kind |-> "console.error"]
            /\ UNCHANGED <<resources, bookings>>
       ELSE /\ resources' = IF load.runs[i].resourcesRes = "ok" THEN tree ELSE <<>>
            /\ bookings' = reservations
            /\ load' = [load EXCEPT !.resourcesLoaded = TRUE,
                                    !.bookingsLoaded = TRUE,
                                    !.runs[i].pc = "applied"]
            /\ emitted' = [kind |-> "console.log"]
    /\ UNCHANGED schedulerVars

\* a fetch or a body rejects: the catch writes a console line and nothing else
LoadFailed(i) ==
    /\ load.runs[i].pc \in PendingPcs
    /\ load' = [load EXCEPT !.runs[i].pc = "failed"]
    /\ emitted' = [kind |-> "console.error"]
    /\ UNCHANGED <<resources, bookings, schedulerVars>>

\* the page is torn down: the cleanup of the effect sets cancelled of its own run
Unmount ==
    /\ load.mounted
    /\ load' = [load EXCEPT !.mounted = FALSE,
                            !.runs[Len(load.runs)].cancelled = TRUE]
    /\ emitted' = Nothing
    /\ UNCHANGED <<resources, bookings, schedulerVars>>

\* the page is mounted again: fresh state, and the effect calls a new loadData
Remount ==
    /\ ~load.mounted
    /\ Len(load.runs) < MaxLoads
    /\ resources' = <<>>
    /\ bookings' = <<>>
    /\ load' = [mounted |-> TRUE, resourcesLoaded |-> FALSE, bookingsLoaded |-> FALSE,
                runs |-> Append(load.runs, StartedLoad)]
    /\ emitted' = Nothing
    /\ UNCHANGED schedulerVars

NextLoad ==
    \/ \E i \in 1..Len(load.runs), resourcesRes \in ResponseKinds,
          bookingsRes \in ResponseKinds :
          AllFetched(i, resourcesRes, bookingsRes)
    \/ \E i \in 1..Len(load.runs) : ResourcesParsed(i)
    \/ \E i \in 1..Len(load.runs), tree \in LoadedTrees, reservations \in LoadedBookings :
          BookingsParsed(i, tree, reservations)
    \/ \E i \in 1..Len(load.runs) : LoadFailed(i)
    \/ Unmount
    \/ Remount

SpecLoad == InitLoad /\ [][NextLoad]_vars

\* one loadData moves on: a fetch or a body settles, with either outcome
LoadStep(i) ==
    /\ i \in 1..Len(load.runs)
    /\ \/ \E resourcesRes \in ResponseKinds, bookingsRes \in ResponseKinds :
             AllFetched(i, resourcesRes, bookingsRes)
       \/ ResourcesParsed(i)
       \/ \E tree \in LoadedTrees, reservations \in LoadedBookings :
             BookingsParsed(i, tree, reservations)
       \/ LoadFailed(i)

\* the page shows "Loading resources..." instead of the scheduler
loading == ~load.resourcesLoaded

\* every promise a loadData awaits settles; the user is free never to leave
\* the page
SpecLoadLive == SpecLoad /\ \A i \in 1..MaxLoads : WF_vars(LoadStep(i))

(* ------------------------------- claims -------------------------------- *)
\* C1: for every booking on screen, given or created through select/confirm, the
\* rendered block never covers a date column whose date is on or after the
\* booking's endDate, in the row path and in the grid path.
C1_CheckoutDayNeverCovered ==
    \A b \in shownBlocks : \A c \in blockColumns(b) : dates[c + 1] < b.endDate

\* C1, the failing case: a booking created by a press and release on the first
\* date cell of a room has startDate = endDate, and its block spans the window
C1_ZeroLengthBookingCoversWindow ==
    \E b \in shownBlocks :
        /\ b.startDate = dates[1]
        /\ b.endDate = dates[1]
        /\ blockColumns(b) = 0..(DaysToShow - 1)

\* C2: every booking of the booking list has startDate < endDate, whatever the
\* sequence of pointer-down, pointer-enter, pointer-up and confirm.
C2_StartBeforeEnd ==
    \A b \in SeqRange(bookings) : b.startDate < b.endDate

\* C2, the failing case: a confirmed booking whose press and release were on one cell
C2_SameCellBooking ==
    \E b \in SeqRange(bookings) :
        b.startDate = b.endDate /\ b.text = "Smith" /\ b.id = Len(SampleBookings) + 1

\* C3: every booking handed to the page carries the id of a leaf resource, never
\* the id of a group row.
C3_BookingsOnLeavesOnly ==
    \A b \in SeqRange(bookings) : b.resourceId \in childIds(resources)

\* C3, the failing case: a confirmed booking whose resourceId is the id of a group
C3_BookingOnGroup ==
    \E b \in SeqRange(bookings) :
        /\ b.text = "Smith"
        /\ \E i \in 1..Len(resources) : resources[i].id = b.resourceId

\* C4: in the schedulers with drag support a non-null selection and an active
\* drag (isDragging) never coexist.
C4_SelectionExcludesDrag ==
    ~(selection # NULL /\ dragState.isDragging)

\* C4, the failing case: a booking is dragged while a finished selection still waits
\* for its modal
C4_DragOverPendingSelection ==
    /\ variant \in DragVariants
    /\ selection # NULL /\ ~isSelecting
    /\ dragState.isDragging /\ dragState.draggedBooking # NULL

\* C5: the modal is never open while a selection gesture is in progress
\* (isSelecting true), under every interleaving of pointer events and the
\* delayed modal-open timer.
C5_ModalClosedWhileSelecting ==
    modalOpen => ~isSelecting

\* C5, the failing case: the timer of an earlier pointer-up opened the modal during
\* the next gesture
C5_ModalOpenDuringGesture ==
    modalOpen /\ isSelecting /\ mouseDownRef /\ button /\ selection # NULL

\* C6: in OptimizedScheduler the selection committed at pointer-up has as its
\* far end the last same-row cell entered before the pointer-up: the date of the
\* pending debounce if one is pending, else the endDate already applied.
C6_CommitKeepsLastEntered ==
    [][(variant = OPT /\ button /\ ~button' /\ mouseUpGuard) =>
          LET lastEntered == IF debounceRef # NULL THEN debounceRef.date
                             ELSE selection.endDate
          IN  selection' = normalized([selection EXCEPT !.endDate = lastEntered], dates)
      ]_vars

\* C6, the failing case: the button is down in OptimizedScheduler and the last
\* entered cell is still held by the debounce timer
C6_EnteredCellStillPending ==
    /\ variant = OPT
    /\ button /\ mouseUpGuard
    /\ debounceRef # NULL
    /\ debounceRef.date # selection.endDate

\* C7: a press on a booking block followed by a release gives exactly one of a
\* drag and a click, never both and never neither, and a hold beyond the time
\* threshold gives the drag.
C7_ExactlyDragOrClick ==
    [][(variant \in DragVariants /\ pressedBooking # NULL /\ button /\ ~button') =>
          LET dragged == dragState.isDragging
              clicked == \/ pendingClick' # NULL
                         \/ (gesture # NULL /\ selectedBooking = NULL
                             /\ selectedBooking' = gesture.booking /\ modalOpen')
              held == gesture # NULL /\ pressClock * TickMs > DragHoldMs
          IN  /\ dragged \/ clicked
              /\ ~(dragged /\ clicked)
              /\ held => dragged
      ]_vars

\* C7, the failing case: a block is held beyond the time threshold without a
\* mousemove, so it was never promoted to a drag
C7_HeldButNotPromoted ==
    /\ variant = DR
    /\ gesture # NULL /\ button
    /\ pressClock * TickMs > DragHoldMs
    /\ ~dragState.isDragging

\* C8: with a search term active (and no booking-ID filter), a group is a row iff
\* its name or a child's name contains the term, case-insensitively; an expanded
\* group whose name matches shows all its children; a group whose name does not
\* match shows exactly its matching children when expanded, and no other child.
C8_SearchTermFilter ==
    (searchTerm # <<>> /\ selectedBookingId = <<>>) =>
        \A i \in 1..Len(resources) :
            LET group == resources[i]
                kids == SeqRange(group.children)
                shown(id) == \E r \in 1..Len(visibleRows) : visibleRows[r].id = id
                hit(name) == includes(toLowerCase(name), toLowerCase(searchTerm))
            IN  /\ shown(group.id) <=> (hit(group.name) \/ \E c \in kids : hit(c.name))
                /\ (group.expanded /\ hit(group.name)) => \A c \in kids : shown(c.id)
                /\ ~hit(group.name) => \A c \in kids : shown(c.id) => hit(c.name)
                /\ (group.expanded /\ ~hit(group.name)) =>
                       \A c \in kids : hit(c.name) => shown(c.id)

\* C8, the failing case: an expanded group whose name matches the term, with a
\* child whose name does not match and which is not a row
C8_ChildOfMatchingGroupHidden ==
    /\ searchTerm # <<>> /\ selectedBookingId = <<>>
    /\ \E i \in 1..Len(resources) :
          /\ resources[i].expanded
          /\ includes(toLowerCase(resources[i].name), toLowerCase(searchTerm))
          /\ \E c \in SeqRange(resources[i].children) :
                /\ ~includes(toLowerCase(c.name), toLowerCase(searchTerm))
                /\ \A r \in 1..Len(visibleRows) : visibleRows[r].id # c.id

\* C9: while a search term or a booking-ID filter is active, every group row that
\* has a matching child is emitted expanded and each matching child is a row.
C9_MatchesAutoExpanded ==
    (searchTerm # <<>> \/ selectedBookingId # <<>>) =>
        \A r \in 1..Len(visibleRows) :
            visibleRows[r].type = "parent" =>
                LET matching ==
                        {c \in SeqRange(visibleRows[r].children) :
                            \/ searchTerm = <<>>
                            \/ includes(toLowerCase(c.name), toLowerCase(searchTerm))}
                IN  matching # {} =>
                        /\ visibleRows[r].expanded
                        /\ \A c \in matching :
                              \E k \in 1..Len(visibleRows) : visibleRows[k].id = c.id

\* C9, the failing case: under a search term a collapsed group row has a child
\* whose name matches
C9_MatchBehindCollapsedGroup ==
    /\ searchTerm # <<>> /\ selectedBookingId = <<>>
    /\ \E r \in 1..Len(visibleRows) :
          /\ visibleRows[r].type = "parent"
          /\ ~visibleRows[r].expanded
          /\ \E c \in SeqRange(visibleRows[r].children) :
                /\ includes(toLowerCase(c.name), toLowerCase(searchTerm))
                /\ \A k \in 1..Len(visibleRows) : visibleRows[k].id # c.id

\* C10: a confirm with a non-blank name while a finished selection waits in the
\* modal appends exactly one booking, whose resourceId, startDate and endDate
\* are those of the normalised selection and whose text and notes are the typed
\* ones; afterwards the selection is cleared, the modal closed and no gesture
\* is in progress.
C10_ConfirmEmitsSelection ==
    [][\A name \in BookingNames, notes \in NotesTexts :
          (/\ ModalConfirm(name, notes)
           /\ trimmed(name)
           /\ selection # NULL /\ selectedBooking = NULL /\ ~isSelecting)
          => /\ Len(bookings') = Len(bookings) + 1
             /\ SubSeq(bookings', 1, Len(bookings)) = bookings
             /\ LET created == bookings'[Len(bookings')]
                    span == normalized(selection, dates)
                IN  /\ created.resourceId = span.resourceId
                    /\ created.startDate = span.startDate
                    /\ created.endDate = span.endDate
                    /\ created.startDate = selection.startDate
                    /\ created.endDate = selection.endDate
                    /\ created.text = name
                    /\ created.notes = notes
             /\ selection' = NULL
             /\ ~modalOpen' /\ ~isSelecting' /\ ~mouseDownRef'
      ]_vars

\* C10, its case: R1 selected from the first to the third day and confirmed as
\* Smith is in the booking list, and the scheduler is idle again
C10_SmithBooked ==
    /\ \E b \in SeqRange(bookings) :
          /\ b.resourceId = "R1"
          /\ b.startDate = dates[1] /\ b.endDate = dates[3]
          /\ b.text = "Smith" /\ b.notes = "late"
    /\ selection = NULL /\ ~modalOpen /\ ~isSelecting /\ ~mouseDownRef

\* C11: the pointer-up that ends a selection gesture commits the span with
\* startDate <= endDate: for the press date a and the far end b of the selection
\* it commits (min(a, b), max(a, b)) on the same resource.
C11_CommitIsNormalized ==
    [][(button /\ ~button' /\ mouseUpGuard) =>
          /\ selection' # NULL
          /\ selection'.resourceId = selection.resourceId
          /\ selection'.startDate = Min(selection.startDate, selection.endDate)
          /\ selection'.endDate = Max(selection.startDate, selection.endDate)
          /\ selection'.startDate <= selection'.endDate
      ]_vars

\* C11, its case: a gesture pressed on the last day of the window and dragged
\* back to the first one is committed from the first day to the last
C11_BackwardDragCommitted ==
    /\ selection # NULL
    /\ ~isSelecting /\ ~button
    /\ startDateRef = dates[DaysToShow]
    /\ selection.startDate = dates[1]
    /\ selection.endDate = dates[DaysToShow]

\* C12: entering a date cell moves the far end of the selection only when the
\* cell is on the row the gesture started on; entering a cell of another row
\* leaves the selection as it is; neither the entry nor its debounced update
\* changes the resource or the start date of the selection.
C12_EnterMovesEndOnStartRowOnly ==
    [][/\ \A cell \in Cells : CellMouseEnter(cell) =>
             /\ (cell.resourceId # startResourceIdRef => selection' = selection)
             /\ (selection' # selection =>
                    /\ selection # NULL /\ selection' # NULL
                    /\ cell.resourceId = selection.resourceId
                    /\ selection' = [selection EXCEPT !.endDate = cell.date])
             /\ (variant # OPT /\ mouseDownRef /\ isSelecting /\ selection # NULL
                   /\ cell.resourceId = startResourceIdRef =>
                    selection'.endDate = cell.date)
       /\ DebounceTimer /\ selection # NULL =>
             /\ selection' # NULL
             /\ selection'.resourceId = selection.resourceId
             /\ selection'.startDate = selection.startDate
      ]_vars

\* C12, its case: a gesture started on the first day of the room's row has been
\* extended to the last day while the group's row is on screen next to it
C12_ExtendedAlongStartRow ==
    /\ isSelecting /\ mouseDownRef
    /\ selection # NULL
    /\ selection.resourceId = "R1"
    /\ startResourceIdRef = "R1"
    /\ selection.startDate = dates[1]
    /\ selection.endDate = dates[DaysToShow]
    /\ \E i \in 1..Len(visibleRows) : visibleRows[i].id = "G1"

\* C13: a pointer-up with no selection gesture in progress (the pointer was not
\* pressed on a cell, or the gesture has already ended) does nothing to the
\* selection machine: selection and isSelecting stay, modalOpen stays and no
\* timer that opens the confirmation is started.  The one release that touches
\* the modal is the click on a booking block, which is the booking-click input
\* of BookingBlock.handleMouseUp and not the work of onMouseUp.
C13_StrayMouseUpIsNoOp ==
    [][(button /\ ~button' /\ ~(mouseDownRef /\ isSelecting)) =>
          /\ UNCHANGED <<isSelecting, mouseDownRef, modalTimers>>
          /\ \/ UNCHANGED <<selection, modalOpen>>
             \/ /\ gesture # NULL
                /\ pressClock * TickMs < DragHoldMs
                /\ handleBookingClick(gesture.booking)
      ]_vars

\* C13, its case: the button is down after a press outside the cells and the
\* blocks while a finished selection waits for its confirmation to open, so
\* the release that follows finds no gesture
C13_PressedOutsideGesture ==
    /\ button /\ ~isSelecting /\ ~mouseDownRef
    /\ pressedBooking = NULL /\ gesture = NULL
    /\ selection # NULL /\ selection.startDate < selection.endDate
    /\ ~modalOpen /\ modalTimers = 1

\* C14: cancelling the confirmation of a pending selection (the Cancel button
\* or a click on the backdrop) clears the selection, closes the modal and puts
\* the selection machine back to idle (isSelecting and the mouse-down flag are
\* false); no booking is handed to onBookingCreate and the bookings stay.
C14_CancelClearsAndEmitsNothing ==
    [][(ModalClose /\ selection # NULL /\ selectedBooking = NULL) =>
          /\ selection' = NULL
          /\ ~modalOpen'
          /\ ~isSelecting' /\ ~mouseDownRef'
          /\ emitted' = Nothing
          /\ bookings' = bookings
          /\ ~modalRendered'
      ]_vars

\* C14, its case: OptimizedScheduler is idle again after a selection was made
\* and its confirmation cancelled; no booking was added
C14_CancelledBackToIdle ==
    /\ variant = OPT
    /\ startDateRef # NoDate
    /\ selection = NULL /\ selectedBooking = NULL
    /\ ~modalOpen /\ modalTimers = 0
    /\ ~isSelecting /\ ~mouseDownRef /\ ~button
    /\ bookings = SampleBookings
    /\ emitted = Nothing

\* C15: while a booking is dragged, entering a date cell only records that
\* cell, {date, resourceId}, as dragState.dropTarget; the rest of dragState, the
\* selection and isSelecting are left alone.
C15_EnterWhileDraggingSetsDropTarget ==
    [][\A cell \in Cells : (dragState.isDragging /\ CellMouseEnter(cell)) =>
          /\ dragState'.dropTarget = [date |-> cell.date, resourceId |-> cell.resourceId]
          /\ dragState'.isDragging = dragState.isDragging
          /\ dragState'.draggedBooking = dragState.draggedBooking
          /\ dragState'.dragOffset = dragState.dragOffset
          /\ UNCHANGED <<selection, isSelecting>>
      ]_vars

\* C15, its case: the booking of room R1 is being dragged and the last cell
\* entered, now the drop target, is on the row of the group
C15_DropTargetOnGroupRow ==
    /\ dragState.isDragging
    /\ dragState.draggedBooking # NULL
    /\ dragState.draggedBooking.resourceId = "R1"
    /\ dragState.dropTarget = [date |-> dates[DaysToShow], resourceId |-> "G1"]

\* C16: a drop on a resolved target keeps the length of the booking: the new
\* span starts on the date of the drop target and ends as many days after it as
\* the original end was after the original start.
C16_DropKeepsDuration ==
    [][\A target \in Targets : \A onBlock \in BOOLEAN :
          LET resolved == IF dragState.dropTarget # NULL
                          THEN dragState.dropTarget ELSE target
              dragged == dragState.draggedBooking
          IN  (DragMouseUp(target, onBlock) /\ resolved # NULL /\ dragged # NULL) =>
                 /\ emitted'.kind = "console.log"
                 /\ emitted'.from = dragged
                 /\ emitted'.to.startDate = resolved.date
                 /\ emitted'.to.endDate - emitted'.to.startDate
                       = dragged.endDate - dragged.startDate
                 /\ emitted'.to.endDate
                       = resolved.date + (dragged.endDate - dragged.startDate)
      ]_vars

\* C16, its case: the booking of days 2..4 has been dropped on the last day of
\* the window and its relocated span is days 3..5
C16_RelocatedToLastDay ==
    /\ emitted.kind = "console.log"
    /\ emitted.from.startDate = StartDay + 1
    /\ emitted.from.endDate = StartDay + DaysToShow
    /\ emitted.to.startDate = dates[DaysToShow]
    /\ emitted.to.endDate = dates[DaysToShow] + (DaysToShow - 1)
    /\ ~dragState.isDragging

\* C17: every pointer-up that ends a drag over a resolved drop target hands the
\* move of the booking (its id, the target resource, the new start and end) to
\* the owner of the scheduler, once, and puts the drag machine back to idle.
C17_DropHandsMoveToOwner ==
    [][\A target \in Targets : \A onBlock \in BOOLEAN :
          LET resolved == IF dragState.dropTarget # NULL
                          THEN dragState.dropTarget ELSE target
              dragged == dragState.draggedBooking
          IN  (DragMouseUp(target, onBlock) /\ resolved # NULL /\ dragged # NULL) =>
                 /\ dragState' = IdleDrag
                 /\ emitted'.kind \in OwnerCallbacks
      ]_vars

\* C17, its case: a drag has ended over a resolved drop target; the drag machine
\* is idle, the move went to the console and the bookings are as they were
C17_DropOnlyLogged ==
    /\ dragState = IdleDrag
    /\ emitted.kind = "console.log"
    /\ emitted.to.resourceId = "G1"
    /\ emitted.from \in SeqRange(bookings)
    /\ bookings = SampleBookings

\* C18: a pointer-up that ends a drag with no drop target (none tracked during
\* the move, no date cell under the pointer) is a pure cancellation: nothing is
\* handed on or logged as a move, the bookings and the dragged booking are as
\* before, and dragState is reset.
C18_DropWithoutTargetCancels ==
    [][\A onBlock \in BOOLEAN :
          (DragMouseUp(NULL, onBlock) /\ dragState.dropTarget = NULL) =>
             /\ emitted' = Nothing
             /\ bookings' = bookings
             /\ dragState.draggedBooking \in SeqRange(bookings')
             /\ dragState' = IdleDrag
             /\ UNCHANGED <<selection, selectedBooking, modalOpen>>
      ]_vars

\* C18, its case: a booking is being dragged and the pointer has moved off the
\* date cells, so that no drop target is tracked when the button is released
C18_DraggedOffTheCells ==
    /\ button
    /\ dragState.isDragging
    /\ dragState.draggedBooking \in SeqRange(bookings)
    /\ dragState.dropTarget = NULL
    /\ dragState.dragOffset # IdleDrag.dragOffset

\* C19: in the visible row list, whatever the tree and the filters, the first
\* row is a group row, the group rows come in the order of the groups, and each
\* group row is followed at once by the rows of exactly its children that pass
\* the filters, in their original order and tagged with the group's id, when
\* the group is shown expanded, and by no child row when it is shown collapsed.
C19_RowsFollowTheirGroup ==
    LET rows == visibleRows
        groupAt(id) == CHOOSE g \in 1..Len(resources) : resources[g].id = id
        referenced(c) == \E k \in 1..Len(bookings) :
                            /\ bookings[k].resourceId = c.id
                            /\ includes(toString(bookings[k].booking_id),
                                        selectedBookingId)
        passes(c) == /\ selectedBookingId = <<>> \/ referenced(c)
                     /\ searchTerm = <<>>
                           \/ includes(toLowerCase(c.name), toLowerCase(searchTerm))
        parentsAt == {i \in 1..Len(rows) : rows[i].type = "parent"}
        blockEnd(i) == IF \E j \in parentsAt : j > i
                       THEN (CHOOSE j \in parentsAt :
                                j > i /\ \A m \in parentsAt : m > i => j <= m) - 1
                       ELSE Len(rows)
    IN  /\ rows # <<>> => rows[1].type = "parent"
        /\ \A i \in parentsAt : \E g \in 1..Len(resources) : resources[g].id = rows[i].id
        /\ \A i, j \in parentsAt :
              i < j => groupAt(rows[i].id) < groupAt(rows[j].id)
        /\ \A i \in parentsAt :
              LET kids == IF rows[i].expanded
                          THEN SelectSeq(resources[groupAt(rows[i].id)].children,
                                         LAMBDA c : passes(c))
                          ELSE <<>>
              IN  /\ blockEnd(i) - i = Len(kids)
                  /\ \A k \in 1..Len(kids) :
                        /\ rows[i + k].type = "child"
                        /\ rows[i + k].id = kids[k].id
                        /\ rows[i + k].name = kids[k].name
                        /\ rows[i + k].parentId = rows[i].id

\* C19, its case: under the search term "a" the expanded first group is followed
\* by the one child of its two that passes, and the collapsed second group
\* stands alone after it
C19_ExpandedThenCollapsedGroup ==
    /\ searchTerm = <<"a">>
    /\ Len(resources[1].children) = 2
    /\ Len(visibleRows) = 3
    /\ visibleRows[1].id = "G1" /\ visibleRows[1].expanded
    /\ visibleRows[2].type = "child"
    /\ visibleRows[2].id = "R1" /\ visibleRows[2].parentId = "G1"
    /\ visibleRows[3].id = "G2" /\ ~visibleRows[3].expanded

\* C20: with a booking-ID substring in the filter box (and no search term), the
\* row list holds exactly the groups with at least one child that is the
\* resource of a booking whose id, written in decimal, contains the substring;
\* the child rows are exactly those referenced children, a group with none of
\* them is absent, and every group row is shown expanded.
C20_IdFilterKeepsReferencedRooms ==
    (selectedBookingId # <<>> /\ searchTerm = <<>>) =>
        LET rows == visibleRows
            referenced(c) == \E k \in 1..Len(bookings) :
                                /\ bookings[k].resourceId = c.id
                                /\ includes(toString(bookings[k].id), selectedBookingId)
        IN  /\ \A g \in 1..Len(resources) :
                   /\ (\E i \in 1..Len(rows) :
                          rows[i].type = "parent" /\ rows[i].id = resources[g].id)
                      <=> (\E n \in 1..Len(resources[g].children) :
                              referenced(resources[g].children[n]))
                   /\ \A n \in 1..Len(resources[g].children) :
                         (\E i \in 1..Len(rows) :
                             /\ rows[i].type = "child"
                             /\ rows[i].id = resources[g].children[n].id
                             /\ rows[i].parentId = resources[g].id)
                         <=> referenced(resources[g].children[n])
            /\ \A i \in 1..Len(rows) : rows[i].type = "parent" => rows[i].expanded

\* C20, its case: the filter box holds "1"; booking 102 on room R3 has a "1" in
\* its id but not in its booking_id 3, and neither R3 nor its group is listed,
\* while R1, whose booking has booking_id 12, is
C20_RoomOfMatchingIdNotListed ==
    /\ selectedBookingId = <<"1">> /\ searchTerm = <<>>
    /\ \E k \in 1..Len(bookings) :
          /\ bookings[k].resourceId = "R3"
          /\ includes(toString(bookings[k].id), selectedBookingId)
          /\ ~includes(toString(bookings[k].booking_id), selectedBookingId)
    /\ \A i \in 1..Len(visibleRows) : visibleRows[i].id \notin {"R3", "G2"}
    /\ \E i \in 1..Len(visibleRows) : visibleRows[i].id = "R1"

\* C21: whatever the tree, the bookings and the filter values were, once both
\* filters are cleared after one of them was set, the visible row list is,
\* element for element, the flattening of the unfiltered resources, and the
\* resources are the ones the filters were applied to.
C21_ClearingFiltersRestoresRows ==
    [][((searchTerm # <<>> \/ selectedBookingId # <<>>)
          /\ searchTerm' = <<>> /\ selectedBookingId' = <<>>) =>
             /\ resources' = resources
             /\ visibleRows' = flattenPlain(resources')
      ]_vars

\* C21, its case: both filters are set and the row list they leave is not the
\* flattening of the resources, so that clearing them has rows to bring back
C21_BothFiltersNarrowTheList ==
    /\ searchTerm # <<>> /\ selectedBookingId # <<>>
    /\ visibleRows # <<>>
    /\ Len(visibleRows) < Len(flattenPlain(resources))
    /\ \E g \in 1..Len(resources) : ~resources[g].expanded

\* C22: the filters never change the resources tree.  A change of the search
\* term or of the booking-ID filter leaves resources as it is, and the tree a
\* toggle hands to onResourcesChange while a filter is set is built from the
\* unfiltered resources: every group is in it, in order, with all its children,
\* and no group but the toggled one has another expanded flag than before.
C22_FiltersLeaveTreeAlone ==
    [][/\ (searchTerm' # searchTerm \/ selectedBookingId' # selectedBookingId) =>
             resources' = resources
       /\ \A parentId \in {resources[g].id : g \in 1..Len(resources)} :
             (ToggleExpand(parentId)
                /\ (searchTerm # <<>> \/ selectedBookingId # <<>>)) =>
                /\ emitted'.kind = "onResourcesChange"
                /\ resources' = emitted'.tree
                /\ Len(emitted'.tree) = Len(resources)
                /\ \A g \in 1..Len(resources) :
                      /\ emitted'.tree[g].id = resources[g].id
                      /\ emitted'.tree[g].name = resources[g].name
                      /\ emitted'.tree[g].children = resources[g].children
                      /\ resources[g].id # parentId =>
                            emitted'.tree[g].expanded = resources[g].expanded
      ]_vars

\* C22, its case: under the booking-ID filter "3", which lists the second group
\* alone, opened and cut down to its booked room, that group has been toggled;
\* the tree handed on still has both groups and the two rooms of the first
C22_ToggledUnderIdFilter ==
    /\ selectedBookingId = <<"3">>
    /\ emitted.kind = "onResourcesChange"
    /\ emitted.tree = resources
    /\ Len(resources) = 2
    /\ Len(resources[1].children) = 2
    /\ Len(visibleRows) = 2
    /\ visibleRows[1].id = "G2"

\* C23: with no filter set, a tree whose groups are all collapsed flattens to
\* one row per group, in the order of the groups; toggling every group open, in
\* any order, lists every child too, and toggling every group closed again, in
\* any order, gives back the list the collapsed tree had.
C23_CollapseRoundTrip ==
    (/\ searchTerm = <<>> /\ selectedBookingId = <<>>
     /\ \A g \in 1..Len(resources) : ~resources[g].expanded) =>
        LET n == Len(resources)
            ids == {resources[g].id : g \in 1..n}
            orders == {p \in [1..n -> ids] : \A a, b \in 1..n : a # b => p[a] # p[b]}
            rowsOf(res) == visibleRowsFiltered(res, validBookings, <<>>, <<>>)
            count(res, g) == Len(res[g].children)
            RECURSIVE total(_, _)
            total(res, g) == IF g = 0 THEN 0 ELSE count(res, g) + total(res, g - 1)
        IN  /\ Len(visibleRows) = n
            /\ \A g \in 1..n :
                  /\ visibleRows[g].type = "parent"
                  /\ visibleRows[g].id = resources[g].id
                  /\ visibleRows[g].name = resources[g].name
            /\ \A open \in orders : \A close \in orders :
                  /\ Len(rowsOf(toggleAll(resources, open))) = n + total(resources, n)
                  /\ toggleAll(toggleAll(resources, open), close) = resources
                  /\ rowsOf(toggleAll(toggleAll(resources, open), close)) = visibleRows

\* C23, its case: no filter is set, the last step was a toggle that closed the
\* second group, and with both groups collapsed the list is the two group rows
C23_AllCollapsedAfterToggle ==
    /\ searchTerm = <<>> /\ selectedBookingId = <<>>
    /\ emitted.kind = "onResourcesChange" /\ emitted.tree = resources
    /\ \A g \in 1..Len(resources) : ~resources[g].expanded
    /\ Len(resources) = 2 /\ Len(visibleRows) = 2
    /\ visibleRows[1].id = "G1" /\ visibleRows[2].id = "G2"

\* C24: every toggle of a group calls onResourcesChange once with the whole
\* tree, in which the expanded flag of the toggled group is negated and nothing
\* else differs: the other groups, all children, the names and the order are
\* those of the tree before.
C24_ToggleHandsOnWholeTree ==
    [][\A parentId \in {resources[g].id : g \in 1..Len(resources)} :
          ToggleExpand(parentId) =>
             /\ emitted'.kind = "onResourcesChange"
             /\ DOMAIN emitted'.tree = DOMAIN resources
             /\ \A g \in 1..Len(resources) :
                   IF resources[g].id = parentId
                   THEN /\ emitted'.tree[g].expanded = ~resources[g].expanded
                        /\ [emitted'.tree[g] EXCEPT !.expanded = resources[g].expanded]
                              = resources[g]
                   ELSE emitted'.tree[g] = resources[g]
      ]_vars

\* C24, its case: the first of two groups has just been toggled open with no
\* filter set; the tree handed on has it expanded with its two rooms, and the
\* second group collapsed as it was
C24_FirstGroupToggledOpen ==
    /\ searchTerm = <<>> /\ selectedBookingId = <<>>
    /\ emitted.kind = "onResourcesChange"
    /\ Len(emitted.tree) = 2
    /\ emitted.tree[1].id = "G1" /\ emitted.tree[1].expanded
    /\ Len(emitted.tree[1].children) = 2
    /\ emitted.tree[2].id = "G2" /\ ~emitted.tree[2].expanded
    /\ Len(visibleRows) = 4

\* C25: a booking is reported visible exactly when its startDate is a date of
\* the window, or its last occupied day (endDate minus one day) is, or it starts
\* before the first date of the window and its last occupied day is after the
\* last one; and every booking with endDate on or before the first date of the
\* window, or startDate after the last, is reported invisible.
C25_VisibleIffOverlapsWindow ==
    \A b \in SeqRange(validBookings) :
        LET lastDay == b.endDate - 1
            inWindow(d) == \E i \in 1..Len(dates) : dates[i] = d
        IN  /\ bookingOverlapsRange(b, dates) <=>
                  \/ inWindow(b.startDate)
                  \/ inWindow(lastDay)
                  \/ (b.startDate < dates[1] /\ lastDay > dates[Len(dates)])
            /\ (b.endDate <= dates[1] \/ b.startDate > dates[Len(dates)]) =>
                  ~bookingOverlapsRange(b, dates)

\* C25, the failing case: a booking made by a press and release on the first
\* date cell of the room has its endDate on the first date of the window, and
\* it is reported visible and its block is on screen
C25_EndsOnFirstDayYetVisible ==
    \E b \in shownBlocks :
        /\ b.resourceId = "R1"
        /\ b.endDate <= dates[1]
        /\ bookingOverlapsRange(b, dates)
        /\ b.text = "Smith"

\* C26: for every visible booking with date keys, BookingBlock and
\* GridBookingCell lay the block out from column visibleStart to column
\* visibleEnd, where visibleStart is the column of startDate, or 0 when it is
\* not in the window, and visibleEnd is the column of endDate minus one day, or
\* the last column when that is not in the window; the span is visibleEnd -
\* visibleStart + 1.  So a booking with startDate < endDate covers exactly the
\* columns of the window from its startDate to the day before its endDate: one
\* from the first day to a checkout inside the window never covers the column
\* of the checkout, and one from before the window to after it covers it all.
C26_SpanIsClippedStay ==
    \A b \in SeqRange(bookings) :
        (isDateKey(b.startDate) /\ isDateKey(b.endDate)
            /\ bookingOverlapsRange(b, dates)) =>
           LET last == Len(dates) - 1
               inWindow(d) == dates[1] <= d /\ d <= dates[Len(dates)]
               vStart == IF inWindow(b.startDate) THEN b.startDate - dates[1] ELSE 0
               vEnd == IF inWindow(b.endDate - 1) THEN b.endDate - 1 - dates[1] ELSE last
           IN  /\ BookingBlock(b, dates).start = vStart
               /\ BookingBlock(b, dates).span = vEnd - vStart + 1
               /\ GridBookingCell(b, dates).span = vEnd - vStart + 1
               /\ vStart >= 0 /\ vEnd <= last
               /\ rowPathColumns(b, dates) = vStart..vEnd
               /\ b.startDate < b.endDate =>
                     /\ rowPathColumns(b, dates) =
                           {c \in 0..last : b.startDate <= dates[c + 1]
                                              /\ dates[c + 1] < b.endDate}
                     /\ gridPathColumns(b, dates) = rowPathColumns(b, dates)
               /\ (b.startDate = dates[1] /\ inWindow(b.endDate)
                     /\ b.startDate < b.endDate) =>
                     /\ rowPathColumns(b, dates) = 0..(b.endDate - dates[1] - 1)
                     /\ (b.endDate - dates[1]) \notin rowPathColumns(b, dates)
               /\ (b.startDate < dates[1] /\ b.endDate - 1 > dates[Len(dates)]) =>
                     rowPathColumns(b, dates) = 0..last

\* C26, its case: the row scheduler shows the room with a booking from the first
\* day of the window to a checkout on the last; its block starts in column 0
\* and stops short of the last column
C26_CheckoutOnLastDay ==
    /\ variant = DR
    /\ \E b \in shownBlocks :
          /\ b.startDate = dates[1]
          /\ b.endDate = dates[DaysToShow]
          /\ BookingBlock(b, dates).start = 0
          /\ BookingBlock(b, dates).span = DaysToShow - 1
          /\ (DaysToShow - 1) \notin blockColumns(b)

\* C27: the row path (BookingBlock), the grid path (the cellRenderer filter and
\* GridBookingCell) and the inline block of the drag grid decide alike whether
\* a booking is visible and give its block the same first column and the same
\* width in columns, for every booking with date keys and the window.
C27_PathsLayOutAlike ==
    \A b \in SeqRange(bookings) :
        (isDateKey(b.startDate) /\ isDateKey(b.endDate)) =>
           /\ GridBookingCell(b, dates).visible = BookingBlock(b, dates).visible
           /\ (getDateIndex(b.startDate, dates) # NotFound)
                 = BookingBlock(b, dates).visible
           /\ gridPathColumns(b, dates) = rowPathColumns(b, dates)
           /\ inlineBlockColumns(b, dates) = rowPathColumns(b, dates)

\* C27, the failing case: the drag grid shows the room with a booking that
\* starts inside the window and checks out after it; BookingBlock would lay it
\* out to the last column, and the inline block of the grid covers no column
C27_InlineBlockWithoutWidth ==
    /\ variant = DG
    /\ \E i \in 1..Len(visibleRows) : visibleRows[i].id = "R1"
    /\ \E b \in SeqRange(bookings) :
          /\ b.startDate = dates[2]
          /\ b.endDate = dates[DaysToShow] + 1
          /\ blockRendered(b)
          /\ blockColumns(b) = {}
          /\ rowPathColumns(b, dates) = 1..(DaysToShow - 1)

\* C28: a booking whose startDate or endDate is no date key is not found by the
\* column lookup and is invisible: laying it out throws nothing and gives no
\* visible block, in the row path, the grid path and the inline block.
C28_MalformedKeysAreInvisible ==
    \A b \in SeqRange(bookings) :
        (~isDateKey(b.startDate) \/ ~isDateKey(b.endDate)) =>
           /\ ~isDateKey(b.startDate) => getDateIndex(b.startDate, dates) = NotFound
           /\ ~isDateKey(b.endDate) => getDateIndex(b.endDate, dates) = NotFound
           /\ ~throwsRangeError(b)
           /\ ~BookingBlock(b, dates).visible
           /\ rowPathColumns(b, dates) = {}
           /\ gridPathColumns(b, dates) = {}
           /\ inlineBlockColumns(b, dates) = {}

\* C28, the failing case: the row scheduler shows the room with a booking that
\* starts on the first day of the window and whose endDate is no date; its
\* block is on screen and covers the whole window
C28_MalformedEndYetVisible ==
    /\ variant = DR
    /\ \E b \in shownBlocks :
          /\ b.startDate = dates[1]
          /\ ~isDateKey(b.endDate)
          /\ getDateIndex(b.endDate, dates) = NotFound
          /\ BookingBlock(b, dates).visible
          /\ blockColumns(b) = 0..(DaysToShow - 1)

\* C29: the filters never fail on an absent field: for every tree and booking
\* list reached by loading the data and creating bookings through select and
\* confirm, whatever is typed into the booking-ID box, the row list and the
\* suggestion list are computed without an error.
C29_FiltersNeverThrow ==
    /\ ~throwsTypeError(validBookings, selectedBookingId)
    /\ ~renderThrows

\* C29, the failing case: a booking was created through the modal, so it has no
\* booking_id, and "1" is in the booking-ID box: the filter callback calls
\* toString on undefined
C29_FilterOverCreatedBooking ==
    /\ selectedBookingId = <<"1">>
    /\ Len(bookings) = Len(SampleBookings) + 1
    /\ bookings[Len(bookings)].text = "Smith"
    /\ bookings[Len(bookings)].booking_id = Undefined
    /\ bookings[Len(bookings)].resourceId = "R1"
    /\ renderThrows

\* C30: a loadData whose cancelled flag is set never writes: whenever a run
\* that is already cancelled takes a step, the step does not apply its result
\* and leaves the resources, the bookings and both loaded flags as they were,
\* whatever the order of teardown, remount and the completions of the fetches.
C30_CancelledLoadNeverWrites ==
    [][\A i \in 1..Len(load.runs) :
          (load.runs[i].cancelled /\ load'.runs[i].pc # load.runs[i].pc)
             => /\ load'.runs[i].pc # "applied"
                /\ resources' = resources
                /\ bookings' = bookings
                /\ load'.resourcesLoaded = load.resourcesLoaded
                /\ load'.bookingsLoaded = load.bookingsLoaded]_vars

\* the first load resolved after the page was torn down and mounted again, and
\* was discarded while the page was still waiting for its second load
C30_StaleLoadDiscarded ==
    /\ Len(load.runs) = 2
    /\ load.runs[1].cancelled /\ load.runs[1].pc = "discarded"
    /\ load.mounted /\ load.runs[2].pc \in PendingPcs
    /\ ~load.resourcesLoaded /\ ~load.bookingsLoaded
    /\ resources = <<>> /\ bookings = <<>>

\* C31: a failed load leaves the state intact: whenever a loadData ends after a
\* fetch or a body failed (the catch ran, or one of its responses was an error
\* response), the step changes neither the resources nor the bookings, so the
\* two are applied together or not at all.
C31_FailedLoadLeavesStateIntact ==
    [][\A i \in 1..Len(load.runs) :
          LET before == load.runs[i]
              after == load'.runs[i]
          IN  (/\ before.pc \in PendingPcs
               /\ after.pc \notin PendingPcs
               /\ \/ after.pc = "failed"
                  \/ after.resourcesRes = "error"
                  \/ after.bookingsRes = "error")
                 => resources' = resources /\ bookings' = bookings]_vars

\* the resources request was answered with an error status and the bookings
\* request was answered well: the bookings of that load are on the page, over
\* an empty tree that is flagged as loaded
C31_BookingsOfHalfFailedLoadApplied ==
    /\ Len(load.runs) = 1
    /\ load.runs[1].resourcesRes = "error" /\ load.runs[1].bookingsRes = "ok"
    /\ load.runs[1].pc = "applied"
    /\ load.resourcesLoaded /\ load.bookingsLoaded
    /\ resources = <<>> /\ bookings = SampleBookings

\* C32: a failed load is surfaced: once the loadData of the mounted page has
\* ended in its catch, the page eventually leaves the loading state (or is left
\* by the user) instead of showing the loading text for ever.
C32_FailureIsSurfaced ==
    (load.mounted /\ load.runs[Len(load.runs)].pc = "failed")
       ~> (~loading \/ ~load.mounted)

\* the only loadData of the mounted page failed and the page is still loading
C32_FailedAndStillLoading ==
    /\ load.mounted /\ Len(load.runs) = 1
    /\ load.runs[1].pc = "failed"
    /\ loading
    /\ emitted = [kind |-> "console.error"]

\* C33: a booking whose resourceId is the id of no leaf resource is drawn in no
\* row, whatever is expanded, filtered or selected, and it raises no error: the
\* render throws exactly when it throws for the bookings of the leaf resources.
C33_UnknownResourceNeverShown ==
    LET known(b) == b.resourceId \in childIds(resources)
    IN  /\ \A b \in SeqRange(bookings) : ~known(b) => b \notin shownBlocks
        /\ renderThrows <=>
              throwsTypeError(SelectSeq(bookings, known), selectedBookingId)

\* a booking was created on the row of group G1, which is on screen, its dates
\* are inside the window and a booking-ID filter is being typed
C33_BookingOnGroupRow ==
    /\ \E b \in SeqRange(bookings) :
          /\ b.resourceId = "G1"
          /\ blockRendered(b)
          /\ \E i \in 1..Len(visibleRows) : visibleRows[i].id = b.resourceId
    /\ selectedBookingId # <<>>
    /\ ~renderThrows

\* C35: in VirtualizedScheduler every booking whose clipped span covers a
\* materialized date column of its materialized row is drawn, wherever the
\* column of its first visible date lies.
C35_SpanInWindowIsDrawn ==
    \A b \in SeqRange(validBookings) :
        (/\ variant = VS
         /\ \E i \in 1..Len(visibleRows) :
               visibleRows[i].id = b.resourceId /\ rowMaterialized(i - 1)
         /\ \E c \in rowPathColumns(b, dates) : columnMaterialized(c))
           => b \in shownBlocks

\* VirtualizedScheduler is scrolled right: the stay covers the whole window, the
\* row of R1 and the second and third date column are materialized, the first
\* column is not, and the block of the stay is not drawn
C35_AnchorScrolledAway ==
    /\ variant = VS
    /\ materialized.columns = <<1, 2>>
    /\ \E b \in SeqRange(validBookings) :
          /\ rowPathColumns(b, dates) = 0..(Len(dates) - 1)
          /\ visibleStartIndex(b, dates) = 0
          /\ \E i \in 1..Len(visibleRows) :
                visibleRows[i].id = b.resourceId /\ rowMaterialized(i - 1)
          /\ b \notin shownBlocks

\* C36: booking ids stay unique: no two bookings of the page ever share an id,
\* whatever was selected or clicked before the confirms that appended them.
C36_BookingIdsUnique ==
    \A i \in 1..Len(bookings), j \in 1..Len(bookings) :
        i # j => bookings[i].id # bookings[j].id

\* the loaded booking was clicked and its modal confirmed: the appended booking
\* carries the id of the clicked one
C36_ConfirmedCopyKeepsId ==
    /\ Len(bookings) = 2
    /\ bookings[1] = SampleBookings[1]
    /\ bookings[2].id = bookings[1].id
    /\ bookings[2].text = "Smith"
    /\ emitted.kind = "onBookingCreate"

\* C37: the modal is open only over something to confirm: in every reachable
\* state, modalOpen implies that there is a selection or a selected booking.
C37_OpenModalHasData ==
    modalOpen => (selection # NULL \/ selectedBooking # NULL)

\* the delayed timer of Scheduler has fired after the selection was cleared:
\* the open flag is set, no timer is left, and there is nothing to show
C37_OpenedOverNothing ==
    /\ variant = SCH
    /\ modalOpen /\ modalTimers = 0
    /\ selection = NULL /\ selectedBooking = NULL
    /\ ~modalRendered

\* C38: scroll synchronisation keeps the header aligned with the timeline: once
\* no scroll event is pending and the guard is cleared, the scrollLeft of the
\* header equals the scrollLeft of the timeline.
C38_HeaderAlignedWhenSettled ==
    (scroll.pending = {} /\ ~scroll.isScrolling /\ ~scroll.frameRequested)
       => scroll.header = scroll.timeline

\* everything has settled with the timeline one column further than the header
C38_SettledOutOfLine ==
    /\ scroll.pending = {} /\ ~scroll.isScrolling /\ ~scroll.frameRequested
    /\ scroll.header = 1 /\ scroll.timeline = 2

\* C39: while a booking-ID filter is active, toggling a group that survives the
\* filter leaves the visible rows as they are and negates the stored expanded
\* flag of that group alone, so that the unfiltered row list, which is shown
\* once the filter is cleared, differs from the one before the toggle.
C39_ToggleUnderIdFilterIsHidden ==
    [][\A parentId \in {visibleRows[i].id : i \in 1..Len(visibleRows)} :
          (selectedBookingId # <<>> /\ ToggleExpand(parentId))
             => /\ visibleRows' = visibleRows
                /\ \A i \in 1..Len(resources) :
                      resources'[i].expanded =
                         IF resources[i].id = parentId THEN ~resources[i].expanded
                         ELSE resources[i].expanded
                /\ visibleRowsFiltered(resources', validBookings, <<>>, <<>>)
                      # visibleRowsFiltered(resources, validBookings, <<>>, <<>>)]_vars

\* a group has just been toggled under a booking-ID filter: it is stored as
\* collapsed, yet its row is shown expanded with its matching child below it
C39_CollapsedYetShownOpen ==
    /\ selectedBookingId # <<>>
    /\ emitted.kind = "onResourcesChange"
    /\ \E g \in 1..Len(resources), i \in 1..Len(visibleRows) :
          /\ ~resources[g].expanded
          /\ visibleRows[i].type = "parent"
          /\ visibleRows[i].id = resources[g].id
          /\ visibleRows[i].expanded
          /\ i < Len(visibleRows)
          /\ visibleRows[i + 1].type = "child"
          /\ visibleRows[i + 1].parentId = resources[g].id

====
